---- MODULE Spec2Model ----
(***************************************************************************)
(* Command lifecycle and lease-based claim engine of kolony-backend.       *)
(*                                                                         *)
(* The store (the commands, command_results and events tables), the        *)
(* realtime hub's output and every request in flight are the state.  A     *)
(* request handler is a chain of steps, one per awaited store call: two    *)
(* requests interleave exactly at their awaits, as they do on the node     *)
(* event loop.  A handler's synchronous code runs with the store call      *)
(* that precedes it.  The store and the event sink are taken not to fail   *)
(* (the handlers' 500 branches are not modelled).                          *)
(*                                                                         *)
(* Time is a clock in milliseconds that advances in coarse ticks.  A        *)
(* timestamp a handler writes is the clock's value where the handler       *)
(* computes it, before the update that carries it is issued.               *)
(***************************************************************************)
EXTENDS Integers, Sequences, FiniteSets, TLC

-----------------------------------------------------------------------------
(* Bounds of the model *)

MaxCommands == 1
MaxProcs == 2
MaxEvents == 5
MaxResults == 2
MaxTime == 16000
MaxCalls == 2
MaxClaimCalls == 2
MaxQueued == 2
MaxHubCalls == 5
MaxPolls == 2
MaxPollTime == 4000
MaxEventFailures == 1
MaxStreams == 2
MaxStreamPublishes == 2
MaxExchangeCalls == 3
MaxConnectTime == 900000
MaxLogCalls == 3

(* Program constants *)

MinMaxClaims == 1
MaxMaxClaims == 10
MinLeaseSeconds == 15
MaxLeaseSeconds == 300
DefaultPriority == 5
MaxSleepMs == 1000
MinSleepMs == 100

(* Inputs *)

Agents == {"A", "B"}
Procs == 1..MaxProcs
Priorities == {DefaultPriority, 9}
\* Agents and priorities are interchangeable until two commands compete for a
\* claim: operators create commands for one agent at the default priority, and
\* the claims-only runs start from stores with any agents and priorities.
TargetAgents == {"A"}
CreatePriorities == {DefaultPriority}
LeaseChoices == {15, 20}
MaxClaimsChoices == {1, 2}
WaitChoices == {0, 15000}
TickSteps == {15000}
ChunkIndexes == {0, 1}
ReasonChoices == {"null", "busy"}
ErrorMessages == {"boom"}
Topics == {1, 2}
PublishedStatuses == {"queued", "executing"}
CreatedAtChoices == {0, 1000}
PollWaitChoices == {0, 2500}
PollTickSteps == {500}

NULL == -1
NoAgent == "null"
NullText == "null"

-----------------------------------------------------------------------------
(* types.ts *)

CommandStatus ==
  {"draft", "queued", "dispatching", "executing", "completed", "failed", "cancelled"}

(* lib/lifecycle.ts *)

transitions ==
  [draft |-> {"queued"},
   queued |-> {"dispatching", "cancelled", "failed"},
   dispatching |-> {"executing", "failed", "cancelled"},
   executing |-> {"executing", "completed", "failed", "cancelled"},
   completed |-> {},
   failed |-> {},
   cancelled |-> {}]

canTransition_AllowRequeue(from, to) ==
  IF from = to /\ to = "executing"
    THEN TRUE
    ELSE to \in transitions[from] \/ (from = "completed" /\ to = "queued")

canTransition_TerminalCancel(from, to) ==
  IF from = to /\ to = "executing"
    THEN TRUE
    ELSE to \in transitions[from] \/ (from = "completed" /\ to = "cancelled")

canTransition_Backward(from, to) ==
  IF from = to /\ to = "executing"
    THEN TRUE
    ELSE to \in transitions[from] \/ (from = "executing" /\ to = "dispatching")

canTransition(from, to) ==
  IF from = to /\ to = "executing"
    THEN TRUE
    ELSE to \in transitions[from]

-----------------------------------------------------------------------------
(* Helpers *)

Min(a, b) == IF a < b THEN a ELSE b
Max(a, b) == IF a > b THEN a ELSE b

Range(s) == {s[i] : i \in 1..Len(s)}

Perms(s) ==
  {t \in [1..Len(s) -> Range(s)] : \A i, j \in 1..Len(s) : i # j => t[i] # t[j]}

RECURSIVE SumOver(_, _)
SumOver(f, S) ==
  IF S = {} THEN 0
  ELSE LET x == CHOOSE y \in S : TRUE IN f[x] + SumOver(f, S \ {x})

-----------------------------------------------------------------------------
VARIABLES
  now,        \* the clock, in ms
  commands,   \* the commands table: a sequence of rows, the id is the index
  results,    \* the command_results table, in insertion order
  events,     \* the events table, in insertion order
  published,  \* the payloads handed to realtimeHub.publish, in order
  pc,         \* pc[p]: the await the request of slot p is at, or "idle"
  req,        \* req[p]: the request's inputs and locals
  response,   \* the response the latest step sent, with the request it answers
  wire,       \* the request that has arrived and awaits its middleware, if any
  taskLogs,   \* the agent_task_logs table, in insertion order
  logCalls,   \* history: the task log appends and their answers
  claimCalls, \* history: the claim calls answered so far (claims-only runs)
  ctCalls,    \* history: the canTransition calls made (validator runs)
  clientsByCommand, \* the hub's registry: topic -> set of clients; a topic
                    \* without an entry is not in the domain
  clients,    \* clients[i]: the i-th StreamClient made by subscribe, with the
              \* topic its unsubscribe closure holds and what was written to
              \* its response
  hubCalls,   \* history: the calls made on the hub (hub runs)
  claimPolls, \* history: the claim calls with the attempts each made (poll runs)
  streams,    \* streams[i]: the i-th stream request (GET .../stream)
  agents,     \* the agents table: agent id -> its token columns
  intents,    \* the agent_connect_intents table, one row per setup code
  exchangeCalls, \* history: the answers of POST /connect/exchange
  eventFailures  \* history: the number of audit writes that failed

storeVars == <<commands, results, events, published>>
histVars == <<claimCalls, ctCalls, hubCalls, claimPolls, exchangeCalls, eventFailures>>
registryVars == <<streams, agents, intents>>
taskVars == <<taskLogs, logCalls>>
vars ==
  <<now, commands, results, events, published, pc, req, response, claimCalls, ctCalls,
    clientsByCommand, clients, hubCalls, claimPolls, streams, agents, intents,
    exchangeCalls, eventFailures, wire, taskLogs, logCalls>>

\* Without a bearer token; without a row of agent_connect_intents.
NoToken == 0
NoIntent == [id |-> 0, agent_id |-> NoAgent, expires_at |-> NULL, consumed_at |-> NULL]

NoReq ==
  [op |-> "none", agent |-> NoAgent, cmd |-> 0, status |-> "draft",
   newStatus |-> "draft", isFinal |-> FALSE, chunkIndex |-> 0, text |-> NullText,
   maxClaims |-> 0, leaseSeconds |-> 0, timeoutAt |-> 0, wakeAt |-> 0, vNow |-> 0,
   items |-> <<>>, intent |-> NoIntent, nowIso |-> 0, token |-> NoToken, call |-> 0,
   startSeq |-> 0, lines |-> 0]

NoResponse ==
  [code |-> 0, op |-> "none", agent |-> NoAgent, cmd |-> 0, error |-> NullText]

\* A request as it arrives: who calls (an operator's user or an agent), the
\* route, the role of the user's profile row (NoRole without a row) and the
\* bearer token of the authorization header (NoToken without one).
NoRole == "none"
NoWire == [kind |-> "none", op |-> "none", role |-> NoRole, token |-> NoToken]

\* The request slots of the run: one when requests are served one at a time.
Slots == DOMAIN pc

\* A response names the request it answers when requests are served one at a
\* time; with several requests in flight it keeps the status code only.
Response(code, op, agentId, id) ==
  IF Slots = {1}
    THEN [code |-> code, op |-> op, agent |-> agentId, cmd |-> id, error |-> NullText]
    ELSE [NoResponse EXCEPT !.code = code]

CmdIds == 1..Len(commands)

\* lib/crypto.ts: a token and its hash are different values, and different
\* tokens have different hashes.
sha256(token) == token + 100

\* The agents table when every agent has connected: agent A holds token 1,
\* agent B token 2.
RegisteredAgents ==
  [a \in Agents |->
     [token_hash |-> sha256(IF a = "A" THEN 1 ELSE 2), token_active |-> TRUE]]

Init ==
  /\ now = 0
  /\ commands = <<>>
  /\ results = <<>>
  /\ events = <<>>
  /\ published = <<>>
  /\ pc = [p \in {1} |-> "idle"]
  /\ req = [p \in {1} |-> NoReq]
  /\ response = NoResponse
  /\ claimCalls = <<>>
  /\ ctCalls = <<>>
  /\ clientsByCommand = <<>>
  /\ clients = <<>>
  /\ hubCalls = <<>>
  /\ claimPolls = <<>>
  /\ streams = <<>>
  /\ agents = RegisteredAgents
  /\ intents = <<>>
  /\ exchangeCalls = <<>>
  /\ eventFailures = 0
  /\ wire = NoWire
  /\ taskLogs = <<>>
  /\ logCalls = <<>>

-----------------------------------------------------------------------------
(* lib/events.ts *)

Event(eventType, level, agentId, commandId, status, chunkIndex) ==
  [event_type |-> eventType, level |-> level, agent_id |-> agentId,
   command_id |-> commandId, status |-> status, chunk_index |-> chunkIndex]

createEvent(eventType, level, agentId, commandId, status, chunkIndex) ==
  events' = Append(events, Event(eventType, level, agentId, commandId, status, chunkIndex))

(* lib/realtime-hub.ts *)

Payload(commandId, status, eventType) ==
  [commandId |-> commandId, status |-> status, eventType |-> eventType]

NoPayload == Payload(0, NullText, NullText)

\* Client i is in the registry.
Registered(i) ==
  /\ clients[i].commandId \in DOMAIN clientsByCommand
  /\ i \in clientsByCommand[clients[i].commandId]

\* The payloads are published one after the other: each is written to the
\* clients registered under its topic.
publishAll_Broadcast(payloads) ==
  /\ published' = published \o payloads
  /\ clients' = [i \in DOMAIN clients |->
                   IF Registered(i)
                     THEN [clients[i] EXCEPT !.written = @ \o payloads]
                     ELSE clients[i]]

publishAll(payloads) ==
  /\ published' = published \o payloads
  /\ clients' = [i \in DOMAIN clients |->
                   IF Registered(i)
                     THEN [clients[i] EXCEPT !.written =
                             @ \o SelectSeq(payloads,
                                            LAMBDA m : m.commandId = clients[i].commandId)]
                     ELSE clients[i]]

publish(commandId, status, eventType) ==
  publishAll(<<Payload(commandId, status, eventType)>>)

subscribe(commandId) ==
  LET client == Len(clients) + 1
      existing == IF commandId \in DOMAIN clientsByCommand
                    THEN clientsByCommand[commandId] ELSE {}
  IN /\ clients' = Append(clients, [commandId |-> commandId, written |-> <<>>])
     /\ clientsByCommand' =
          [t \in DOMAIN clientsByCommand \cup {commandId} |->
             IF t = commandId THEN existing \cup {client} ELSE clientsByCommand[t]]

unsubscribe_DropTopic(i) ==
  LET commandId == clients[i].commandId
  IN /\ UNCHANGED clients
     /\ clientsByCommand' =
          [t \in DOMAIN clientsByCommand \ {commandId} |-> clientsByCommand[t]]

unsubscribe_KeepEmptyTopic(i) ==
  LET commandId == clients[i].commandId
  IN /\ UNCHANGED clients
     /\ IF commandId \notin DOMAIN clientsByCommand THEN UNCHANGED clientsByCommand
        ELSE clientsByCommand' = [clientsByCommand EXCEPT ![commandId] = @ \ {i}]

\* The function subscribe returned for client i.
unsubscribe(i) ==
  LET commandId == clients[i].commandId
  IN /\ UNCHANGED clients
     /\ IF commandId \notin DOMAIN clientsByCommand THEN UNCHANGED clientsByCommand
        ELSE IF clientsByCommand[commandId] \ {i} = {}
          THEN clientsByCommand' =
                 [t \in DOMAIN clientsByCommand \ {commandId} |-> clientsByCommand[t]]
        ELSE clientsByCommand' =
               [clientsByCommand EXCEPT ![commandId] = @ \ {i}]

-----------------------------------------------------------------------------
(* Requests in flight *)

StepOut(p, r) ==
  /\ wire' = NoWire
  /\ UNCHANGED taskVars
  /\ pc' = [pc EXCEPT ![p] = "idle"]
  /\ req' = [req EXCEPT ![p] = NoReq]
  /\ response' = r

RespondCore(p, r) ==
  /\ StepOut(p, r)
  /\ UNCHANGED clientsByCommand
  /\ UNCHANGED registryVars

Respond(p, r) ==
  /\ RespondCore(p, r)
  /\ UNCHANGED histVars

\* The answer to the request slot p holds.
Answer(p, code) == Response(code, req[p].op, req[p].agent, req[p].cmd)

StepTo(p, label, r) ==
  /\ wire' = NoWire
  /\ UNCHANGED taskVars
  /\ pc' = [pc EXCEPT ![p] = label]
  /\ req' = [req EXCEPT ![p] = r]
  /\ response' = NoResponse

GotoCore(p, label, r) ==
  /\ StepTo(p, label, r)
  /\ UNCHANGED clientsByCommand
  /\ UNCHANGED registryVars

Goto(p, label, r) ==
  /\ GotoCore(p, label, r)
  /\ UNCHANGED histVars

\* The audit events the request of slot p has still to write.
EventsOwed(p) ==
  IF pc[p] \in {"idle", "create_publish", "cancel_publish", "release_publish",
                "progress_publish", "result_publish", "fail_publish", "claim_publish",
                "delete_row"}
    THEN 0
  ELSE IF pc[p] = "claim_sleep" THEN 0
  ELSE IF pc[p] \in {"claim_rpc", "claim_events"} THEN Len(req[p].items)
  ELSE 1

EventsReserved == SumOver([p \in Slots |-> EventsOwed(p)], Slots)

\* A mutating request is admitted while the audit log has room for its events.
Room(n) == Len(events) + EventsReserved + n <= MaxEvents

\* Rows locked by a claim transaction that has selected and not yet updated.
Locked(c) == \E q \in Slots : pc[q] = "claim_rpc" /\ c \in Range(req[q].items)

-----------------------------------------------------------------------------
Tick(d) ==
  /\ now + d <= MaxTime
  /\ now' = now + d
  /\ response' = NoResponse
  /\ UNCHANGED <<commands, results, events, published, clients, pc, req>>
  /\ UNCHANGED clientsByCommand
  /\ UNCHANGED registryVars
  /\ UNCHANGED wire
  /\ UNCHANGED taskVars
  /\ UNCHANGED histVars

-----------------------------------------------------------------------------
(* routes/operators.ts: POST /commands *)

NewCommand_Draft(agentId, priority) ==
  [agent_id |-> agentId, priority |-> priority, status |-> "draft",
   claimed_by_agent_id |-> NoAgent, claimed_at |-> NULL, lease_expires_at |-> NULL,
   attempt_count |-> 0, last_claim_error |-> NullText, started_at |-> NULL,
   completed_at |-> NULL, error_message |-> NullText, created_at |-> now]

NewCommand(agentId, priority) ==
  [agent_id |-> agentId, priority |-> priority, status |-> "queued",
   claimed_by_agent_id |-> NoAgent, claimed_at |-> NULL, lease_expires_at |-> NULL,
   attempt_count |-> 0, last_claim_error |-> NullText, started_at |-> NULL,
   completed_at |-> NULL, error_message |-> NullText, created_at |-> now]

CreateInsert(p, agentId, priority) ==
  /\ pc[p] = "idle"
  /\ Len(commands) < MaxCommands
  /\ Room(1)
  /\ commands' = Append(commands, NewCommand(agentId, priority))
  /\ Goto(p, "create_event",
          [NoReq EXCEPT !.op = "create", !.agent = agentId,
                        !.cmd = Len(commands) + 1, !.status = "queued"])
  /\ UNCHANGED <<now, results, events, published, clients>>

CreateEvent(p) ==
  /\ pc[p] = "create_event"
  /\ createEvent("command.created", "info", req[p].agent, req[p].cmd, NullText, NULL)
  /\ Goto(p, "create_publish", req[p])
  /\ UNCHANGED <<now, commands, results, published, clients>>

CreatePublish(p) ==
  /\ pc[p] = "create_publish"
  /\ publish(req[p].cmd, req[p].status, "command.created")
  /\ Respond(p, Response(201, "create", NoAgent, req[p].cmd))
  /\ UNCHANGED <<now, commands, results, events>>

(* routes/operators.ts: POST /commands/:id/cancel *)

\* A variant that refuses to cancel a command an agent holds.
CancelRead_UnclaimedOnly(p, id) ==
  /\ pc[p] = "idle"
  /\ UNCHANGED <<now, commands, results, events, published, clients>>
  /\ IF id \notin CmdIds THEN Respond(p, Response(404, "cancel", NoAgent, id))
     ELSE IF ~canTransition(commands[id].status, "cancelled")
               \/ commands[id].claimed_by_agent_id # NoAgent
       THEN Respond(p, Response(409, "cancel", NoAgent, id))
     ELSE /\ Room(1)
          /\ Goto(p, "cancel_update",
                  [NoReq EXCEPT !.op = "cancel", !.cmd = id,
                                !.agent = commands[id].agent_id, !.vNow = now])

CancelRead(p, id) ==
  /\ pc[p] = "idle"
  /\ UNCHANGED <<now, commands, results, events, published, clients>>
  /\ IF id \notin CmdIds THEN Respond(p, Response(404, "cancel", NoAgent, id))
     ELSE IF ~canTransition(commands[id].status, "cancelled") THEN Respond(p, Response(409, "cancel", NoAgent, id))
     ELSE /\ Room(1)
          /\ Goto(p, "cancel_update",
                  [NoReq EXCEPT !.op = "cancel", !.cmd = id,
                                !.agent = commands[id].agent_id, !.vNow = now])

CancelUpdate(p) ==
  /\ pc[p] = "cancel_update"
  /\ ~Locked(req[p].cmd)
  /\ commands' = [commands EXCEPT ![req[p].cmd].status = "cancelled",
                                  ![req[p].cmd].completed_at = req[p].vNow]
  /\ Goto(p, "cancel_event", [req[p] EXCEPT !.vNow = 0])
  /\ UNCHANGED <<now, results, events, published, clients>>

CancelEvent(p) ==
  /\ pc[p] = "cancel_event"
  /\ createEvent("command.cancelled", "info", req[p].agent, req[p].cmd, NullText, NULL)
  /\ Goto(p, "cancel_publish", req[p])
  /\ UNCHANGED <<now, commands, results, published, clients>>

CancelPublish(p) ==
  /\ pc[p] = "cancel_publish"
  /\ publish(req[p].cmd, "cancelled", "command.cancelled")
  /\ Respond(p, Response(200, "cancel", NoAgent, req[p].cmd))
  /\ UNCHANGED <<now, commands, results, events>>

-----------------------------------------------------------------------------
(* supabase/migrations: claim_agent_commands, and POST /commands/claim *)

Before(c, d) ==
  \/ commands[c].priority > commands[d].priority
  \/ /\ commands[c].priority = commands[d].priority
     /\ commands[c].created_at < commands[d].created_at

Claimable_NoRowLock(agentId, vNow) ==
  {c \in CmdIds :
     /\ commands[c].agent_id = agentId
     /\ commands[c].status = "queued"
     /\ (commands[c].lease_expires_at = NULL \/ commands[c].lease_expires_at <= vNow)}

Claimable_AnyAgent(agentId, vNow) ==
  {c \in CmdIds :
     /\ commands[c].status = "queued"
     /\ (commands[c].lease_expires_at = NULL \/ commands[c].lease_expires_at <= vNow)
     /\ ~Locked(c)}

Claimable(agentId, vNow) ==
  {c \in CmdIds :
     /\ commands[c].agent_id = agentId
     /\ commands[c].status = "queued"
     /\ (commands[c].lease_expires_at = NULL \/ commands[c].lease_expires_at <= vNow)
     /\ ~Locked(c)}

\* The candidates CTE: the first v_limit claimable rows in priority desc,
\* created_at asc order (rows that tie may come in either order).
Candidates_Unordered(agentId, maxClaims, vNow) ==
  LET vLimit == Max(MinMaxClaims, Min(maxClaims, MaxMaxClaims))
      pool == Claimable(agentId, vNow)
      k == Min(vLimit, Cardinality(pool))
  IN {s \in [1..k -> pool] : \A i, j \in 1..k : i < j => s[i] # s[j]}

Candidates(agentId, maxClaims, vNow) ==
  LET vLimit == Max(MinMaxClaims, Min(maxClaims, MaxMaxClaims))
      pool == Claimable(agentId, vNow)
      k == Min(vLimit, Cardinality(pool))
  IN {s \in [1..k -> pool] :
        /\ \A i, j \in 1..k : i < j => (s[i] # s[j] /\ ~Before(s[j], s[i]))
        /\ \A c \in pool \ Range(s) : \A i \in 1..k : ~Before(c, s[i])}

ClaimSelect(p, r) ==
  /\ \E s \in Candidates(r.agent, r.maxClaims, now) :
       /\ Room(Len(s))
       /\ GotoCore(p, "claim_rpc", [r EXCEPT !.vNow = now, !.wakeAt = 0, !.items = s])
  /\ UNCHANGED <<now, commands, results, events, published, clients>>

ClaimRpcSelectCore(p, agentId, maxClaims, leaseSeconds, waitMs) ==
  /\ pc[p] = "idle"
  /\ ClaimSelect(p, [NoReq EXCEPT !.op = "claim", !.agent = agentId,
                                  !.maxClaims = maxClaims,
                                  !.leaseSeconds = leaseSeconds,
                                  !.timeoutAt = now + waitMs])

ClaimRpcSelect(p, agentId, maxClaims, leaseSeconds, waitMs) ==
  /\ ClaimRpcSelectCore(p, agentId, maxClaims, leaseSeconds, waitMs)
  /\ UNCHANGED histVars

\* setTimeout calls back once the delay is over, never before.
ClaimWakeCore(p) ==
  /\ pc[p] = "claim_sleep"
  /\ now >= req[p].wakeAt
  /\ ClaimSelect(p, req[p])

ClaimWake(p) ==
  /\ ClaimWakeCore(p)
  /\ UNCHANGED histVars

Claimed(row, agentId, vNow, leaseSeconds) ==
  LET vLease == Max(MinLeaseSeconds, Min(leaseSeconds, MaxLeaseSeconds))
  IN [row EXCEPT !.status = "dispatching",
                 !.claimed_by_agent_id = agentId,
                 !.claimed_at = vNow,
                 !.lease_expires_at = vNow + vLease * 1000,
                 !.attempt_count = row.attempt_count + 1]

ClaimRpcUpdateCore_WholeQueue(p) ==
  /\ pc[p] = "claim_rpc"
  /\ commands' = [c \in CmdIds |->
                    IF req[p].items # <<>> /\ commands[c].agent_id = req[p].agent
                                          /\ commands[c].status = "queued"
                      THEN Claimed(commands[c], req[p].agent, req[p].vNow, req[p].leaseSeconds)
                      ELSE commands[c]]
  /\ IF req[p].items # <<>>
       THEN GotoCore(p, "claim_events",
                     [NoReq EXCEPT !.op = "claim", !.agent = req[p].agent,
                                   !.maxClaims = req[p].maxClaims,
                                   !.items = req[p].items])
     ELSE IF now >= req[p].timeoutAt THEN RespondCore(p, Answer(p, 200))
     ELSE GotoCore(p, "claim_sleep",
                   [req[p] EXCEPT !.vNow = 0, !.wakeAt =
                      now + Min(MaxSleepMs, Max(MinSleepMs, req[p].timeoutAt - now))])
  /\ UNCHANGED <<now, results, events, published, clients>>

ClaimRpcUpdateCore_StrictTimeout(p) ==
  /\ pc[p] = "claim_rpc"
  /\ commands' = [c \in CmdIds |->
                    IF c \in Range(req[p].items)
                      THEN Claimed(commands[c], req[p].agent, req[p].vNow, req[p].leaseSeconds)
                      ELSE commands[c]]
  /\ IF req[p].items # <<>>
       THEN GotoCore(p, "claim_events",
                     [NoReq EXCEPT !.op = "claim", !.agent = req[p].agent,
                                   !.maxClaims = req[p].maxClaims,
                                   !.items = req[p].items])
     ELSE IF now > req[p].timeoutAt THEN RespondCore(p, Answer(p, 200))
     ELSE GotoCore(p, "claim_sleep",
                   [req[p] EXCEPT !.vNow = 0, !.wakeAt =
                      now + Min(MaxSleepMs, Max(MinSleepMs, req[p].timeoutAt - now))])
  /\ UNCHANGED <<now, results, events, published, clients>>

ClaimRpcUpdateCore(p) ==
  /\ pc[p] = "claim_rpc"
  /\ commands' = [c \in CmdIds |->
                    IF c \in Range(req[p].items)
                      THEN Claimed(commands[c], req[p].agent, req[p].vNow, req[p].leaseSeconds)
                      ELSE commands[c]]
  /\ IF req[p].items # <<>>
       THEN GotoCore(p, "claim_events",
                     [NoReq EXCEPT !.op = "claim", !.agent = req[p].agent,
                                   !.maxClaims = req[p].maxClaims,
                                   !.items = req[p].items])
     ELSE IF now >= req[p].timeoutAt THEN RespondCore(p, Answer(p, 200))
     ELSE GotoCore(p, "claim_sleep",
                   [req[p] EXCEPT !.vNow = 0, !.wakeAt =
                      now + Min(MaxSleepMs, Max(MinSleepMs, req[p].timeoutAt - now))])
  /\ UNCHANGED <<now, results, events, published, clients>>

ClaimRpcUpdate(p) ==
  /\ ClaimRpcUpdateCore(p)
  /\ UNCHANGED histVars

ClaimEvents(p) ==
  /\ pc[p] = "claim_events"
  /\ \E order \in Perms(req[p].items) :
       events' = events \o
         [i \in 1..Len(order) |->
            Event("command.claimed", "info", req[p].agent, order[i], NullText, NULL)]
  /\ Goto(p, "claim_publish", req[p])
  /\ UNCHANGED <<now, commands, results, published, clients>>

ClaimPublishCore(p) ==
  /\ pc[p] = "claim_publish"
  /\ publishAll([i \in 1..Len(req[p].items) |->
                   Payload(req[p].items[i], "dispatching", "command.claimed")])
  /\ RespondCore(p, Answer(p, 200))
  /\ UNCHANGED <<now, commands, results, events>>

ClaimPublish(p) ==
  /\ ClaimPublishCore(p)
  /\ UNCHANGED histVars

-----------------------------------------------------------------------------
(* routes/mcp.ts: POST /commands/:id/lease/extend *)

ExtendRead_NoStatusCheck(p, agentId, id, leaseSeconds) ==
  /\ pc[p] = "idle"
  /\ UNCHANGED <<now, commands, results, events, published, clients>>
  /\ IF id \notin CmdIds THEN Respond(p, Response(404, "extend", agentId, id))
     ELSE IF commands[id].agent_id # agentId THEN Respond(p, Response(403, "extend", agentId, id))
     ELSE IF commands[id].claimed_by_agent_id # agentId THEN Respond(p, Response(409, "extend", agentId, id))
     ELSE /\ Room(1)
          /\ Goto(p, "extend_update",
                  [NoReq EXCEPT !.op = "extend", !.agent = agentId, !.cmd = id,
                                !.leaseSeconds = leaseSeconds, !.vNow = now])

ExtendRead(p, agentId, id, leaseSeconds) ==
  /\ pc[p] = "idle"
  /\ UNCHANGED <<now, commands, results, events, published, clients>>
  /\ IF id \notin CmdIds THEN Respond(p, Response(404, "extend", agentId, id))
     ELSE IF commands[id].agent_id # agentId THEN Respond(p, Response(403, "extend", agentId, id))
     ELSE IF commands[id].claimed_by_agent_id # agentId THEN Respond(p, Response(409, "extend", agentId, id))
     ELSE IF commands[id].status \notin {"dispatching", "executing"} THEN Respond(p, Response(409, "extend", agentId, id))
     ELSE /\ Room(1)
          /\ Goto(p, "extend_update",
                  [NoReq EXCEPT !.op = "extend", !.agent = agentId, !.cmd = id,
                                !.leaseSeconds = leaseSeconds, !.vNow = now])

ExtendUpdate(p) ==
  /\ pc[p] = "extend_update"
  /\ ~Locked(req[p].cmd)
  /\ commands' = [commands EXCEPT
                    ![req[p].cmd].lease_expires_at = req[p].vNow + req[p].leaseSeconds * 1000]
  /\ Goto(p, "extend_event", [req[p] EXCEPT !.leaseSeconds = 0, !.vNow = 0])
  /\ UNCHANGED <<now, results, events, published, clients>>

ExtendEvent(p) ==
  /\ pc[p] = "extend_event"
  /\ createEvent("command.lease_extended", "info", req[p].agent, req[p].cmd, NullText, NULL)
  /\ Respond(p, Answer(p, 200))
  /\ UNCHANGED <<now, commands, results, published, clients>>

(* routes/mcp.ts: POST /commands/:id/release *)

ReleaseRead_NoClaimCheck(p, agentId, id, reason) ==
  /\ pc[p] = "idle"
  /\ UNCHANGED <<now, commands, results, events, published, clients>>
  /\ IF id \notin CmdIds THEN Respond(p, Response(404, "release", agentId, id))
     ELSE IF commands[id].agent_id # agentId THEN Respond(p, Response(403, "release", agentId, id))
     ELSE IF commands[id].status \notin {"dispatching", "executing"} THEN Respond(p, Response(409, "release", agentId, id))
     ELSE /\ Room(1)
          /\ Goto(p, "release_update",
                  [NoReq EXCEPT !.op = "release", !.agent = agentId, !.cmd = id,
                                !.text = reason])

ReleaseRead(p, agentId, id, reason) ==
  /\ pc[p] = "idle"
  /\ UNCHANGED <<now, commands, results, events, published, clients>>
  /\ IF id \notin CmdIds THEN Respond(p, Response(404, "release", agentId, id))
     ELSE IF commands[id].agent_id # agentId THEN Respond(p, Response(403, "release", agentId, id))
     ELSE IF commands[id].claimed_by_agent_id # agentId THEN Respond(p, Response(409, "release", agentId, id))
     ELSE IF commands[id].status \notin {"dispatching", "executing"} THEN Respond(p, Response(409, "release", agentId, id))
     ELSE /\ Room(1)
          /\ Goto(p, "release_update",
                  [NoReq EXCEPT !.op = "release", !.agent = agentId, !.cmd = id,
                                !.text = reason])

ReleaseUpdate_KeepLease(p) ==
  /\ pc[p] = "release_update"
  /\ ~Locked(req[p].cmd)
  /\ commands' = [commands EXCEPT
                    ![req[p].cmd].status = "queued",
                    ![req[p].cmd].claimed_by_agent_id = NoAgent,
                    ![req[p].cmd].claimed_at = NULL,
                    ![req[p].cmd].started_at = NULL,
                    ![req[p].cmd].last_claim_error = req[p].text]
  /\ Goto(p, "release_event", [req[p] EXCEPT !.text = NullText])
  /\ UNCHANGED <<now, results, events, published, clients>>

ReleaseUpdate_ResetAttempts(p) ==
  /\ pc[p] = "release_update"
  /\ ~Locked(req[p].cmd)
  /\ commands' = [commands EXCEPT
                    ![req[p].cmd].status = "queued",
                    ![req[p].cmd].claimed_by_agent_id = NoAgent,
                    ![req[p].cmd].claimed_at = NULL,
                    ![req[p].cmd].lease_expires_at = NULL,
                    ![req[p].cmd].started_at = NULL,
                    ![req[p].cmd].attempt_count = 0,
                    ![req[p].cmd].last_claim_error = req[p].text]
  /\ Goto(p, "release_event", [req[p] EXCEPT !.text = NullText])
  /\ UNCHANGED <<now, results, events, published, clients>>

ReleaseUpdate(p) ==
  /\ pc[p] = "release_update"
  /\ ~Locked(req[p].cmd)
  /\ commands' = [commands EXCEPT
                    ![req[p].cmd].status = "queued",
                    ![req[p].cmd].claimed_by_agent_id = NoAgent,
                    ![req[p].cmd].claimed_at = NULL,
                    ![req[p].cmd].lease_expires_at = NULL,
                    ![req[p].cmd].started_at = NULL,
                    ![req[p].cmd].last_claim_error = req[p].text]
  /\ Goto(p, "release_event", [req[p] EXCEPT !.text = NullText])
  /\ UNCHANGED <<now, results, events, published, clients>>

ReleaseEvent(p) ==
  /\ pc[p] = "release_event"
  /\ createEvent("command.released", "info", req[p].agent, req[p].cmd, NullText, NULL)
  /\ Goto(p, "release_publish", req[p])
  /\ UNCHANGED <<now, commands, results, published, clients>>

ReleasePublish(p) ==
  /\ pc[p] = "release_publish"
  /\ publish(req[p].cmd, "queued", "command.released")
  /\ Respond(p, Answer(p, 200))
  /\ UNCHANGED <<now, commands, results, events>>

(* routes/mcp.ts: POST /commands/:id/progress *)

ProgressRead_NoTransitionCheck(p, agentId, id, nextStatus) ==
  /\ pc[p] = "idle"
  /\ UNCHANGED <<now, commands, results, events, published, clients>>
  /\ IF id \notin CmdIds THEN Respond(p, Response(404, "progress", agentId, id))
     ELSE IF commands[id].agent_id # agentId THEN Respond(p, Response(403, "progress", agentId, id))
     ELSE /\ Room(1)
          /\ Goto(p, "progress_update",
                  [NoReq EXCEPT !.op = "progress", !.agent = agentId, !.cmd = id,
                                !.status = commands[id].status,
                                !.newStatus = nextStatus, !.vNow = now])

ProgressRead(p, agentId, id, nextStatus) ==
  /\ pc[p] = "idle"
  /\ UNCHANGED <<now, commands, results, events, published, clients>>
  /\ IF id \notin CmdIds THEN Respond(p, Response(404, "progress", agentId, id))
     ELSE IF commands[id].agent_id # agentId THEN Respond(p, Response(403, "progress", agentId, id))
     ELSE IF ~canTransition(commands[id].status, nextStatus) THEN Respond(p, Response(409, "progress", agentId, id))
     ELSE /\ Room(1)
          /\ Goto(p, "progress_update",
                  [NoReq EXCEPT !.op = "progress", !.agent = agentId, !.cmd = id,
                                !.status = commands[id].status,
                                !.newStatus = nextStatus, !.vNow = now])

ProgressUpdate_NoStartedAt(p) ==
  /\ pc[p] = "progress_update"
  /\ ~Locked(req[p].cmd)
  /\ commands' = [commands EXCEPT ![req[p].cmd].status = req[p].newStatus]
  /\ Goto(p, "progress_event", [req[p] EXCEPT !.status = "draft", !.vNow = 0])
  /\ UNCHANGED <<now, results, events, published, clients>>

ProgressUpdate_AlwaysStamp(p) ==
  /\ pc[p] = "progress_update"
  /\ ~Locked(req[p].cmd)
  /\ commands' = [commands EXCEPT
                    ![req[p].cmd].status = req[p].newStatus,
                    ![req[p].cmd].started_at =
                       IF req[p].newStatus = "executing" THEN req[p].vNow ELSE @]
  /\ Goto(p, "progress_event", [req[p] EXCEPT !.status = "draft", !.vNow = 0])
  /\ UNCHANGED <<now, results, events, published, clients>>

ProgressUpdate(p) ==
  /\ pc[p] = "progress_update"
  /\ ~Locked(req[p].cmd)
  /\ commands' = [commands EXCEPT
                    ![req[p].cmd].status = req[p].newStatus,
                    ![req[p].cmd].started_at =
                       IF req[p].newStatus = "executing" /\ req[p].status # "executing"
                         THEN req[p].vNow ELSE @]
  /\ Goto(p, "progress_event", [req[p] EXCEPT !.status = "draft", !.vNow = 0])
  /\ UNCHANGED <<now, results, events, published, clients>>

ProgressEvent(p) ==
  /\ pc[p] = "progress_event"
  /\ createEvent("command.progress", "info", req[p].agent, req[p].cmd, req[p].newStatus, NULL)
  /\ Goto(p, "progress_publish", req[p])
  /\ UNCHANGED <<now, commands, results, published, clients>>

ProgressPublish(p) ==
  /\ pc[p] = "progress_publish"
  /\ publish(req[p].cmd, req[p].newStatus, "command.progress")
  /\ Respond(p, Answer(p, 200))
  /\ UNCHANGED <<now, commands, results, events>>

(* routes/mcp.ts: POST /commands/:id/result *)

ResultsOwed == Cardinality({q \in Slots : pc[q] = "result_insert"})

ResultRead(p, agentId, id, chunkIndex, isFinal) ==
  /\ pc[p] = "idle"
  /\ UNCHANGED <<now, commands, results, events, published, clients>>
  /\ IF id \notin CmdIds THEN Respond(p, Response(404, "result", agentId, id))
     ELSE IF commands[id].agent_id # agentId THEN Respond(p, Response(403, "result", agentId, id))
     ELSE /\ Room(1)
          /\ Len(results) + ResultsOwed < MaxResults
          /\ Goto(p, "result_insert",
                  [NoReq EXCEPT !.op = "result", !.agent = agentId, !.cmd = id,
                                !.status = commands[id].status,
                                !.chunkIndex = chunkIndex, !.isFinal = isFinal])

ResultInsert_CheckFirst(p) ==
  /\ pc[p] = "result_insert"
  /\ results' = IF req[p].isFinal /\ ~canTransition(req[p].status, "completed")
                  THEN results
                  ELSE Append(results, [command_id |-> req[p].cmd,
                                        chunk_index |-> req[p].chunkIndex,
                                        is_final |-> req[p].isFinal])
  /\ IF ~req[p].isFinal THEN Goto(p, "result_event", req[p])
     ELSE IF ~canTransition(req[p].status, "completed") THEN Respond(p, Answer(p, 409))
     ELSE Goto(p, "result_update", [req[p] EXCEPT !.vNow = now])
  /\ UNCHANGED <<now, commands, events, published, clients>>

\* A variant that keeps one row per command and chunk index.
ResultInsert_UniqueChunk(p) ==
  /\ pc[p] = "result_insert"
  /\ results' = IF \E i \in 1..Len(results) :
                      /\ results[i].command_id = req[p].cmd
                      /\ results[i].chunk_index = req[p].chunkIndex
                  THEN results
                  ELSE Append(results, [command_id |-> req[p].cmd,
                                        chunk_index |-> req[p].chunkIndex,
                                        is_final |-> req[p].isFinal])
  /\ IF ~req[p].isFinal THEN Goto(p, "result_event", req[p])
     ELSE IF ~canTransition(req[p].status, "completed") THEN Respond(p, Answer(p, 409))
     ELSE Goto(p, "result_update", [req[p] EXCEPT !.vNow = now])
  /\ UNCHANGED <<now, commands, events, published, clients>>

ResultInsert(p) ==
  /\ pc[p] = "result_insert"
  /\ results' = Append(results, [command_id |-> req[p].cmd,
                                 chunk_index |-> req[p].chunkIndex,
                                 is_final |-> req[p].isFinal])
  /\ IF ~req[p].isFinal THEN Goto(p, "result_event", req[p])
     ELSE IF ~canTransition(req[p].status, "completed") THEN Respond(p, Answer(p, 409))
     ELSE Goto(p, "result_update", [req[p] EXCEPT !.vNow = now])
  /\ UNCHANGED <<now, commands, events, published, clients>>

ResultUpdate(p) ==
  /\ pc[p] = "result_update"
  /\ ~Locked(req[p].cmd)
  /\ commands' = [commands EXCEPT ![req[p].cmd].status = "completed",
                                  ![req[p].cmd].completed_at = req[p].vNow]
  /\ Goto(p, "result_event", [req[p] EXCEPT !.vNow = 0])
  /\ UNCHANGED <<now, results, events, published, clients>>

ResultEvent(p) ==
  /\ pc[p] = "result_event"
  /\ createEvent(IF req[p].isFinal THEN "command.completed" ELSE "command.result_chunk",
                 "info", req[p].agent, req[p].cmd, NullText, req[p].chunkIndex)
  /\ Goto(p, "result_publish", req[p])
  /\ UNCHANGED <<now, commands, results, published, clients>>

ResultPublish(p) ==
  /\ pc[p] = "result_publish"
  /\ publish(req[p].cmd, IF req[p].isFinal THEN "completed" ELSE req[p].status,
             IF req[p].isFinal THEN "command.completed" ELSE "command.result_chunk")
  /\ Respond(p, Answer(p, 200))
  /\ UNCHANGED <<now, commands, results, events>>

(* routes/operators.ts: GET /commands/:id/results *)

\* The rows of command c in chunk_index order; rows with one chunk_index may
\* come in either order.
GetResults(c) ==
  LET rows == SelectSeq(results, LAMBDA r : r.command_id = c)
      n == Len(rows)
  IN {[i \in 1..n |-> rows[f[i]]] :
        f \in {g \in [1..n -> 1..n] :
                 /\ \A i, j \in 1..n : i # j => g[i] # g[j]
                 /\ \A i, j \in 1..n :
                      i < j => rows[g[i]].chunk_index <= rows[g[j]].chunk_index}}

(* routes/mcp.ts: POST /commands/:id/fail *)

FailRead_NoOwnerCheck(p, agentId, id, errorMessage) ==
  /\ pc[p] = "idle"
  /\ UNCHANGED <<now, commands, results, events, published, clients>>
  /\ IF id \notin CmdIds THEN Respond(p, Response(404, "fail", agentId, id))
     ELSE IF ~canTransition(commands[id].status, "failed") THEN Respond(p, Response(409, "fail", agentId, id))
     ELSE /\ Room(1)
          /\ Goto(p, "fail_update",
                  [NoReq EXCEPT !.op = "fail", !.agent = agentId, !.cmd = id,
                                !.text = errorMessage, !.vNow = now])

FailRead(p, agentId, id, errorMessage) ==
  /\ pc[p] = "idle"
  /\ UNCHANGED <<now, commands, results, events, published, clients>>
  /\ IF id \notin CmdIds THEN Respond(p, Response(404, "fail", agentId, id))
     ELSE IF commands[id].agent_id # agentId THEN Respond(p, Response(403, "fail", agentId, id))
     ELSE IF ~canTransition(commands[id].status, "failed") THEN Respond(p, Response(409, "fail", agentId, id))
     ELSE /\ Room(1)
          /\ Goto(p, "fail_update",
                  [NoReq EXCEPT !.op = "fail", !.agent = agentId, !.cmd = id,
                                !.text = errorMessage, !.vNow = now])

FailUpdate_NoErrorMessage(p) ==
  /\ pc[p] = "fail_update"
  /\ ~Locked(req[p].cmd)
  /\ commands' = [commands EXCEPT ![req[p].cmd].status = "failed",
                                  ![req[p].cmd].completed_at = req[p].vNow]
  /\ Goto(p, "fail_event", [req[p] EXCEPT !.text = NullText, !.vNow = 0])
  /\ UNCHANGED <<now, results, events, published, clients>>

FailUpdate(p) ==
  /\ pc[p] = "fail_update"
  /\ ~Locked(req[p].cmd)
  /\ commands' = [commands EXCEPT ![req[p].cmd].status = "failed",
                                  ![req[p].cmd].error_message = req[p].text,
                                  ![req[p].cmd].completed_at = req[p].vNow]
  /\ Goto(p, "fail_event", [req[p] EXCEPT !.text = NullText, !.vNow = 0])
  /\ UNCHANGED <<now, results, events, published, clients>>

FailEvent_None(p) ==
  /\ pc[p] = "fail_event"
  /\ Goto(p, "fail_publish", req[p])
  /\ UNCHANGED <<now, commands, results, events, published, clients>>

FailEvent(p) ==
  /\ pc[p] = "fail_event"
  /\ createEvent("command.failed", "error", req[p].agent, req[p].cmd, NullText, NULL)
  /\ Goto(p, "fail_publish", req[p])
  /\ UNCHANGED <<now, commands, results, published, clients>>

FailPublish(p) ==
  /\ pc[p] = "fail_publish"
  /\ publish(req[p].cmd, "failed", "command.failed")
  /\ Respond(p, Answer(p, 200))
  /\ UNCHANGED <<now, commands, results, events>>

-----------------------------------------------------------------------------
(* The server: any request may arrive in a free slot, any request in flight *)
(* may take its next step, and time may pass.                               *)

InputIds == 1..MaxCommands

CreateRequests(P) ==
  \/ \E p \in P, a \in TargetAgents, pr \in CreatePriorities : CreateInsert(p, a, pr)
  \/ \E p \in P : CreateEvent(p)
  \/ \E p \in P : CreatePublish(p)

ClaimRequests(P) ==
  \/ \E p \in P, a \in Agents, m \in MaxClaimsChoices, l \in LeaseChoices,
        w \in WaitChoices : ClaimRpcSelect(p, a, m, l, w)
  \/ \E p \in P : ClaimWake(p)
  \/ \E p \in P : ClaimRpcUpdate(p)
  \/ \E p \in P : ClaimEvents(p)
  \/ \E p \in P : ClaimPublish(p)

CommandRequests(P) ==
  \/ \E p \in P, id \in InputIds : CancelRead(p, id)
  \/ \E p \in P : CancelUpdate(p)
  \/ \E p \in P : CancelEvent(p)
  \/ \E p \in P : CancelPublish(p)
  \/ \E p \in P, a \in Agents, id \in InputIds, l \in LeaseChoices :
        ExtendRead(p, a, id, l)
  \/ \E p \in P : ExtendUpdate(p)
  \/ \E p \in P : ExtendEvent(p)
  \/ \E p \in P, a \in Agents, id \in InputIds, r \in ReasonChoices :
        ReleaseRead(p, a, id, r)
  \/ \E p \in P : ReleaseUpdate(p)
  \/ \E p \in P : ReleaseEvent(p)
  \/ \E p \in P : ReleasePublish(p)
  \/ \E p \in P, a \in Agents, id \in InputIds, s \in {"dispatching", "executing"} :
        ProgressRead(p, a, id, s)
  \/ \E p \in P : ProgressUpdate(p)
  \/ \E p \in P : ProgressEvent(p)
  \/ \E p \in P : ProgressPublish(p)
  \/ \E p \in P, a \in Agents, id \in InputIds, k \in ChunkIndexes, f \in BOOLEAN :
        ResultRead(p, a, id, k, f)
  \/ \E p \in P : ResultInsert(p)
  \/ \E p \in P : ResultUpdate(p)
  \/ \E p \in P : ResultEvent(p)
  \/ \E p \in P : ResultPublish(p)
  \/ \E p \in P, a \in Agents, id \in InputIds, e \in ErrorMessages :
        FailRead(p, a, id, e)
  \/ \E p \in P : FailUpdate(p)
  \/ \E p \in P : FailEvent(p)
  \/ \E p \in P : FailPublish(p)

\* One request at a time, from the empty store: only slot 1 serves.
NextSeq ==
  \/ \E d \in TickSteps : Tick(d)
  \/ CreateRequests({1})
  \/ ClaimRequests({1})
  \/ CommandRequests({1})

SpecSeq == Init /\ [][NextSeq]_vars

-----------------------------------------------------------------------------
(* Concurrent requests on one command.  The store holds one command that    *)
(* agent A has claimed and then either reported as executing or extended    *)
(* the lease of: states SpecSeq reaches by create, claim and progress or    *)
(* extendLease.  The calls on that command race; claim calls race in        *)
(* SpecClaims.                                                              *)

SeedRow(leaseSeconds) == Claimed(NewCommand("A", DefaultPriority), "A", 0, leaseSeconds)

SeedEvents ==
  <<Event("command.created", "info", "A", 1, NullText, NULL),
    Event("command.claimed", "info", "A", 1, NullText, NULL)>>

SeedPublished ==
  <<Payload(1, "queued", "command.created"),
    Payload(1, "dispatching", "command.claimed")>>

InitRace ==
  /\ now = 0
  /\ results = <<>>
  /\ pc = [p \in Procs |-> "idle"]
  /\ req = [p \in Procs |-> NoReq]
  /\ response = NoResponse
  /\ claimCalls = <<>>
  /\ ctCalls = <<>>
  /\ clientsByCommand = <<>>
  /\ clients = <<>>
  /\ hubCalls = <<>>
  /\ claimPolls = <<>>
  /\ streams = <<>>
  /\ agents = RegisteredAgents
  /\ intents = <<>>
  /\ exchangeCalls = <<>>
  /\ eventFailures = 0
  /\ wire = NoWire
  /\ taskLogs = <<>>
  /\ logCalls = <<>>
  /\ \E l \in LeaseChoices :
       \/ /\ commands = <<SeedRow(l)>>
          /\ events = Append(SeedEvents,
                             Event("command.lease_extended", "info", "A", 1, NullText, NULL))
          /\ published = SeedPublished
       \/ /\ commands = <<[SeedRow(l) EXCEPT !.status = "executing", !.started_at = 0]>>
          /\ events = Append(SeedEvents,
                             Event("command.progress", "info", "A", 1, "executing", NULL))
          /\ published = Append(SeedPublished,
                                Payload(1, "executing", "command.progress"))

NextRace ==
  \/ \E d \in TickSteps : Tick(d)
  \/ CommandRequests(Procs)

SpecRace == InitRace /\ [][NextRace]_vars

-----------------------------------------------------------------------------
(* Concurrent claim calls on a store of queued commands.  The store holds   *)
(* up to MaxQueued commands, each as POST /commands leaves it; claimCalls   *)
(* records what every claim call answered.                                  *)

QueuedRows ==
  {[NewCommand(a, pr) EXCEPT !.created_at = t] :
     a \in Agents, pr \in Priorities, t \in CreatedAtChoices}

\* The commands were created one after the other, the last one no later than
\* now.
InitClaims ==
  /\ now = 1000
  /\ results = <<>>
  /\ pc = [p \in Procs |-> "idle"]
  /\ req = [p \in Procs |-> NoReq]
  /\ response = NoResponse
  /\ claimCalls = <<>>
  /\ ctCalls = <<>>
  /\ clientsByCommand = <<>>
  /\ clients = <<>>
  /\ hubCalls = <<>>
  /\ claimPolls = <<>>
  /\ streams = <<>>
  /\ agents = RegisteredAgents
  /\ intents = <<>>
  /\ exchangeCalls = <<>>
  /\ eventFailures = 0
  /\ wire = NoWire
  /\ taskLogs = <<>>
  /\ logCalls = <<>>
  /\ \E n \in 0..MaxQueued : commands \in [1..n -> QueuedRows]
  /\ \A i, j \in 1..Len(commands) : i < j => commands[i].created_at <= commands[j].created_at
  /\ events = [i \in 1..Len(commands) |->
                 Event("command.created", "info", commands[i].agent_id, i, NullText, NULL)]
  /\ published = [i \in 1..Len(commands) |-> Payload(i, "queued", "command.created")]

ClaimsInFlight == Cardinality({p \in Slots : pc[p] # "idle"})

ClaimCall(p) ==
  [agent |-> req[p].agent, maxClaims |-> req[p].maxClaims, items |-> req[p].items]

ClaimRpcUpdateLogged(p) ==
  /\ ClaimRpcUpdateCore(p)
  /\ claimCalls' = IF req[p].items = <<>> /\ now >= req[p].timeoutAt
                     THEN Append(claimCalls, ClaimCall(p))
                     ELSE claimCalls
  /\ UNCHANGED <<ctCalls, hubCalls, claimPolls, exchangeCalls, eventFailures>>

ClaimPublishLogged(p) ==
  /\ ClaimPublishCore(p)
  /\ claimCalls' = Append(claimCalls, ClaimCall(p))
  /\ UNCHANGED <<ctCalls, hubCalls, claimPolls, exchangeCalls, eventFailures>>

NextClaims ==
  \/ \E d \in TickSteps : Tick(d)
  \/ \E p \in Procs, a \in Agents, m \in MaxClaimsChoices, l \in LeaseChoices,
        w \in WaitChoices :
        /\ Len(claimCalls) + ClaimsInFlight < MaxClaimCalls
        /\ ClaimRpcSelect(p, a, m, l, w)
  \/ \E p \in Procs : ClaimWake(p)
  \/ \E p \in Procs : ClaimRpcUpdateLogged(p)
  \/ \E p \in Procs : ClaimEvents(p)
  \/ \E p \in Procs : ClaimPublishLogged(p)

SpecClaims == InitClaims /\ [][NextClaims]_vars

-----------------------------------------------------------------------------
(* Failing audit writes.  The insert of createEvent can fail; createEvent   *)
(* then throws, the handler's promise rejects before it publishes, and the  *)
(* error handler of the application answers 500.  A claim awaits the        *)
(* writes of all its events together: some may be stored when one fails.    *)

EventSteps ==
  {"create_event", "cancel_event", "claim_events", "extend_event", "release_event",
   "progress_event", "result_event", "fail_event"}

EventWriteFails_Swallowed(p) ==
  /\ pc[p] \in EventSteps
  /\ eventFailures < MaxEventFailures
  /\ pc[p] # "extend_event"
  /\ pc[p] # "claim_events"
  /\ Goto(p, CASE pc[p] = "create_event" -> "create_publish"
               [] pc[p] = "cancel_event" -> "cancel_publish"
               [] pc[p] = "release_event" -> "release_publish"
               [] pc[p] = "progress_event" -> "progress_publish"
               [] pc[p] = "result_event" -> "result_publish"
               [] OTHER -> "fail_publish", req[p])
  /\ UNCHANGED <<now, commands, results, events, published, clients>>

\* A handler variant that undoes its update when the audit write fails: the
\* rows it wrote go back to queued and unclaimed.
EventWriteFails_RolledBack(p) ==
  /\ pc[p] \in EventSteps
  /\ eventFailures < MaxEventFailures
  /\ eventFailures' = eventFailures + 1
  /\ events' = events
  /\ commands' = [c \in CmdIds |->
                    IF c = req[p].cmd \/ c \in Range(req[p].items)
                      THEN [commands[c] EXCEPT !.status = "queued",
                                               !.claimed_by_agent_id = NoAgent,
                                               !.completed_at = NULL]
                      ELSE commands[c]]
  /\ RespondCore(p, Answer(p, 500))
  /\ UNCHANGED <<now, results, published, clients>>
  /\ UNCHANGED <<claimCalls, ctCalls, hubCalls, claimPolls, exchangeCalls>>

EventWriteFails(p) ==
  /\ pc[p] \in EventSteps
  /\ eventFailures < MaxEventFailures
  /\ eventFailures' = eventFailures + 1
  /\ IF pc[p] = "claim_events"
       THEN \E order \in Perms(req[p].items) : \E k \in 0..(Len(order) - 1) :
              events' = events \o
                [i \in 1..k |->
                   Event("command.claimed", "info", req[p].agent, order[i], NullText, NULL)]
       ELSE events' = events
  /\ RespondCore(p, Answer(p, 500))
  /\ UNCHANGED <<now, commands, results, published, clients>>
  /\ UNCHANGED <<claimCalls, ctCalls, hubCalls, claimPolls, exchangeCalls>>

\* Every handler that writes an audit event, called by the agent the
\* command is for.
NextFail ==
  \/ CreateRequests({1})
  \/ \E a \in TargetAgents : ClaimRpcSelect(1, a, MinMaxClaims, MinLeaseSeconds, 0)
  \/ ClaimRpcUpdate(1)
  \/ ClaimEvents(1)
  \/ ClaimPublish(1)
  \/ \E id \in CmdIds : CancelRead(1, id)
  \/ CancelUpdate(1)
  \/ CancelEvent(1)
  \/ CancelPublish(1)
  \/ \E a \in TargetAgents, id \in CmdIds : ExtendRead(1, a, id, MinLeaseSeconds)
  \/ ExtendUpdate(1)
  \/ ExtendEvent(1)
  \/ \E a \in TargetAgents, id \in CmdIds : ReleaseRead(1, a, id, NullText)
  \/ ReleaseUpdate(1)
  \/ ReleaseEvent(1)
  \/ ReleasePublish(1)
  \/ \E a \in TargetAgents, id \in CmdIds, st \in {"dispatching", "executing"} :
       ProgressRead(1, a, id, st)
  \/ ProgressUpdate(1)
  \/ ProgressEvent(1)
  \/ ProgressPublish(1)
  \/ \E a \in TargetAgents, id \in CmdIds, f \in BOOLEAN : ResultRead(1, a, id, 0, f)
  \/ ResultInsert(1)
  \/ ResultUpdate(1)
  \/ ResultEvent(1)
  \/ ResultPublish(1)
  \/ \E a \in TargetAgents, id \in CmdIds, e \in ErrorMessages : FailRead(1, a, id, e)
  \/ FailUpdate(1)
  \/ FailEvent(1)
  \/ FailPublish(1)
  \/ EventWriteFails(1)

SpecFail == Init /\ [][NextFail]_vars

-----------------------------------------------------------------------------
(* The middleware in front of the handlers.  A request arrives with its     *)
(* route and its credentials; the middleware of its router answers it or    *)
(* lets the handler run: requireUser and requireRole('operator') in front   *)
(* of POST /commands and POST /commands/:id/cancel, requireAgent in front   *)
(* of the agent-facing routes.                                               *)

(* middleware/user-auth.ts *)

Roles == {"viewer", "operator", "admin"}

\* The user tokens supabase auth accepts; any other token is invalid.
UserTokens == {1}

roleWeight_ViewerAsOperator(role) ==
  CASE role = "viewer" -> 2 [] role = "operator" -> 2 [] role = "admin" -> 3

roleWeight(role) ==
  CASE role = "viewer" -> 1 [] role = "operator" -> 2 [] role = "admin" -> 3

\* request.role = profile?.role ?? 'viewer'
requestRole(profileRole) == IF profileRole = NoRole THEN "viewer" ELSE profileRole

\* requireRole(minimumRole) calls next() for a request of this role.
requireRole(minimumRole, role) == ~(roleWeight(role) < roleWeight(minimumRole))

(* middleware/agent-auth.ts *)

\* The agents the lookup by token hash returns, active tokens only.
AgentOfToken_AnyToken(token) ==
  {a \in DOMAIN agents : agents[a].token_hash = sha256(token)}

AgentOfToken(token) ==
  {a \in DOMAIN agents :
     agents[a].token_hash = sha256(token) /\ agents[a].token_active}

\* response.status(code).json({ error }): the handler does not run.
Rejection(code, error) ==
  [NoResponse EXCEPT !.code = code, !.op = wire.op, !.error = error]

Reject(p, code, error) ==
  /\ pc[p] = "idle"
  /\ RespondCore(p, Rejection(code, error))
  /\ UNCHANGED <<now, commands, results, events, published, clients>>
  /\ UNCHANGED histVars

OperatorRoutes == {"create", "cancel"}
AgentRoutes == {"claim", "extend", "release", "progress", "result", "fail"}
AgentTokens == {NoToken, 1, 2, 3}

Wires ==
  {[kind |-> "user", op |-> o, role |-> r, token |-> t] :
     o \in OperatorRoutes, r \in Roles \cup {NoRole}, t \in {1}}
  \cup {[kind |-> "user", op |-> o, role |-> NoRole, token |-> t] :
          o \in OperatorRoutes, t \in {NoToken, 2}}
  \cup {[kind |-> "agent", op |-> o, role |-> NoRole, token |-> t] :
          o \in AgentRoutes, t \in AgentTokens}

Arrive(w) ==
  /\ \A p \in Slots : pc[p] = "idle"
  /\ wire = NoWire
  /\ taskLogs = <<>>
  /\ logCalls = <<>>
  /\ wire' = w
  /\ UNCHANGED taskVars
  /\ response' = NoResponse
  /\ UNCHANGED <<now, commands, results, events, published, clients, pc, req>>
  /\ UNCHANGED clientsByCommand
  /\ UNCHANGED registryVars
  /\ UNCHANGED histVars

OperatorRequest(p) ==
  /\ wire.kind = "user"
  /\ IF wire.token = NoToken THEN Reject(p, 401, "Missing bearer token")
     ELSE IF wire.token \notin UserTokens THEN Reject(p, 401, "Invalid user token")
     ELSE IF ~requireRole("operator", requestRole(wire.role))
       THEN Reject(p, 403, "Insufficient role")
     ELSE \/ /\ wire.op = "create"
             /\ \E a \in Agents, pr \in CreatePriorities : CreateInsert(p, a, pr)
          \/ /\ wire.op = "cancel"
             /\ \E id \in InputIds : CancelRead(p, id)

AgentRequest(p) ==
  /\ wire.kind = "agent"
  /\ IF wire.token = NoToken THEN Reject(p, 401, "Missing agent token")
     ELSE IF AgentOfToken(wire.token) = {} THEN Reject(p, 401, "Invalid agent token")
     ELSE \E a \in AgentOfToken(wire.token) :
            \/ /\ wire.op = "claim"
               /\ ClaimRpcSelect(p, a, MinMaxClaims, MinLeaseSeconds, 0)
            \/ /\ wire.op = "extend"
               /\ \E id \in InputIds : ExtendRead(p, a, id, MinLeaseSeconds)
            \/ /\ wire.op = "release"
               /\ \E id \in InputIds : ReleaseRead(p, a, id, NullText)
            \/ /\ wire.op = "progress"
               /\ \E id \in InputIds, st \in {"dispatching", "executing"} :
                    ProgressRead(p, a, id, st)
            \/ /\ wire.op = "result"
               /\ \E id \in InputIds, f \in BOOLEAN : ResultRead(p, a, id, 0, f)
            \/ /\ wire.op = "fail"
               /\ \E id \in InputIds, e \in ErrorMessages : FailRead(p, a, id, e)

\* Agent B's token may have been deactivated.
InitAuth ==
  /\ now = 0
  /\ commands = <<>>
  /\ results = <<>>
  /\ events = <<>>
  /\ published = <<>>
  /\ pc = [p \in {1} |-> "idle"]
  /\ req = [p \in {1} |-> NoReq]
  /\ response = NoResponse
  /\ claimCalls = <<>>
  /\ ctCalls = <<>>
  /\ clientsByCommand = <<>>
  /\ clients = <<>>
  /\ hubCalls = <<>>
  /\ claimPolls = <<>>
  /\ streams = <<>>
  /\ agents \in {RegisteredAgents, [RegisteredAgents EXCEPT !["B"].token_active = FALSE]}
  /\ intents = <<>>
  /\ exchangeCalls = <<>>
  /\ eventFailures = 0
  /\ wire = NoWire
  /\ taskLogs = <<>>
  /\ logCalls = <<>>

NextAuth ==
  \/ \E w \in Wires : Arrive(w)
  \/ OperatorRequest(1)
  \/ AgentRequest(1)
  \/ CreateEvent(1)
  \/ CreatePublish(1)
  \/ CancelUpdate(1)
  \/ CancelEvent(1)
  \/ CancelPublish(1)
  \/ ClaimRpcUpdate(1)
  \/ ClaimEvents(1)
  \/ ClaimPublish(1)
  \/ ExtendUpdate(1)
  \/ ExtendEvent(1)
  \/ ReleaseUpdate(1)
  \/ ReleaseEvent(1)
  \/ ReleasePublish(1)
  \/ ProgressUpdate(1)
  \/ ProgressEvent(1)
  \/ ProgressPublish(1)
  \/ ResultInsert(1)
  \/ ResultUpdate(1)
  \/ ResultEvent(1)
  \/ ResultPublish(1)
  \/ FailUpdate(1)
  \/ FailEvent(1)
  \/ FailPublish(1)

SpecAuth == InitAuth /\ [][NextAuth]_vars

-----------------------------------------------------------------------------
(* routes/mcp.ts: POST /connect/exchange.  An operator has created a        *)
(* connect intent for the provisional agent A: its setup code is 1 and it   *)
(* expires CONNECT_INTENT_TTL_MINUTES after its creation at time 0.  The    *)
(* route has no middleware; two requests can be in flight.  exchangeCalls   *)
(* records, for each call, its setup code, whether an exchange of that code *)
(* had been answered 200 before it started, whether it found the code       *)
(* unconsumed and expired when it started, its answer, and whether it wrote *)
(* a token to the agent.                                                     *)

ConnectIntentTtlMs == 10 * 60 * 1000
ConnectTickSteps == {300000}
SetupCodes == {1, 2}

\* select id, agent_id, expires_at, consumed_at where setup_code_hash = h
IntentByHash(h) ==
  LET found == {i \in 1..Len(intents) : intents[i].setup_code_hash = h}
  IN IF found = {} THEN NoIntent
     ELSE LET i == CHOOSE i \in found : TRUE
          IN [id |-> i, agent_id |-> intents[i].agent_id,
              expires_at |-> intents[i].expires_at,
              consumed_at |-> intents[i].consumed_at]

\* randomBytes(24): a token no earlier call has drawn.
FreshToken(call) == 10 + call

ExchangeAnswered(p, code) ==
  /\ exchangeCalls' = [exchangeCalls EXCEPT ![req[p].call].answer = code]
  /\ UNCHANGED <<claimCalls, ctCalls, hubCalls, claimPolls, eventFailures>>

ExchangeRead(p, setupCode) ==
  LET intent == IntentByHash(sha256(setupCode))
  IN /\ pc[p] = "idle"
     /\ Len(exchangeCalls) < MaxExchangeCalls
     /\ Room(1)
     /\ GotoCore(p, "exchange_agent",
                 [NoReq EXCEPT !.op = "exchange", !.agent = intent.agent_id,
                               !.intent = intent, !.nowIso = now,
                               !.call = Len(exchangeCalls) + 1])
     /\ exchangeCalls' =
          Append(exchangeCalls,
                 [setupCode |-> setupCode,
                  afterSuccess |-> \E k \in 1..Len(exchangeCalls) :
                                     /\ exchangeCalls[k].setupCode = setupCode
                                     /\ exchangeCalls[k].answer = 200,
                  expired |-> /\ intent # NoIntent
                              /\ intent.consumed_at = NULL
                              /\ intent.expires_at <= now,
                  answer |-> 0, wroteToken |-> FALSE])
     /\ UNCHANGED <<claimCalls, ctCalls, hubCalls, claimPolls, eventFailures>>
     /\ UNCHANGED <<now, commands, results, events, published, clients>>

\* The checks on the row read, then the update of the agent.
ExchangeAgent(p) ==
  LET intent == req[p].intent
      token == FreshToken(req[p].call)
  IN /\ pc[p] = "exchange_agent"
     /\ IF intent = NoIntent \/ intent.consumed_at # NULL
          THEN /\ StepOut(p, Answer(p, 404))
               /\ ExchangeAnswered(p, 404)
               /\ UNCHANGED agents
        ELSE IF intent.expires_at <= now
          THEN /\ StepOut(p, Answer(p, 410))
               /\ ExchangeAnswered(p, 410)
               /\ UNCHANGED agents
        ELSE /\ StepTo(p, "exchange_consume", [req[p] EXCEPT !.token = token])
             /\ agents' = [a \in DOMAIN agents |->
                             IF a = intent.agent_id
                               THEN [agents[a] EXCEPT !.token_hash = sha256(token),
                                                      !.token_active = TRUE]
                               ELSE agents[a]]
             /\ exchangeCalls' = [exchangeCalls EXCEPT ![req[p].call].wroteToken = TRUE]
             /\ UNCHANGED <<claimCalls, ctCalls, hubCalls, claimPolls, eventFailures>>
     /\ UNCHANGED <<now, commands, results, events, published, clients>>
     /\ UNCHANGED <<clientsByCommand, streams, intents>>

\* update agent_connect_intents set consumed_at = nowIso where id = intent.id
ExchangeConsume(p) ==
  /\ pc[p] = "exchange_consume"
  /\ intents' = [intents EXCEPT ![req[p].intent.id].consumed_at = req[p].nowIso]
  /\ StepTo(p, "exchange_event", req[p])
  /\ UNCHANGED <<now, commands, results, events, published, clients>>
  /\ UNCHANGED <<clientsByCommand, streams, agents>>
  /\ UNCHANGED histVars

ExchangeEvent(p) ==
  /\ pc[p] = "exchange_event"
  /\ createEvent("agent.connected", "info", req[p].agent, 0, NullText, NULL)
  /\ RespondCore(p, Answer(p, 200))
  /\ ExchangeAnswered(p, 200)
  /\ UNCHANGED <<now, commands, results, published, clients>>

ConnectTick ==
  \E d \in ConnectTickSteps :
    /\ now + d <= MaxConnectTime
    /\ now' = now + d
    /\ response' = NoResponse
    /\ UNCHANGED <<commands, results, events, published, clients, pc, req>>
    /\ UNCHANGED clientsByCommand
    /\ UNCHANGED registryVars
    /\ UNCHANGED histVars
    /\ UNCHANGED wire
    /\ UNCHANGED taskVars

InitConnect ==
  /\ now = 0
  /\ commands = <<>>
  /\ results = <<>>
  /\ events = <<>>
  /\ published = <<>>
  /\ pc = [p \in Procs |-> "idle"]
  /\ req = [p \in Procs |-> NoReq]
  /\ response = NoResponse
  /\ claimCalls = <<>>
  /\ ctCalls = <<>>
  /\ clientsByCommand = <<>>
  /\ clients = <<>>
  /\ hubCalls = <<>>
  /\ claimPolls = <<>>
  /\ streams = <<>>
  /\ \E active \in BOOLEAN :
       agents = [RegisteredAgents EXCEPT !["A"] = [token_hash |-> NULL,
                                                   token_active |-> active]]
  /\ intents = <<[agent_id |-> "A", setup_code_hash |-> sha256(1),
                  expires_at |-> ConnectIntentTtlMs, consumed_at |-> NULL]>>
  /\ exchangeCalls = <<>>
  /\ eventFailures = 0
  /\ wire = NoWire
  /\ taskLogs = <<>>
  /\ logCalls = <<>>

NextConnect ==
  \/ ConnectTick
  \/ \E p \in Procs, c \in SetupCodes : ExchangeRead(p, c)
  \/ \E p \in Procs : ExchangeAgent(p)
  \/ \E p \in Procs : ExchangeConsume(p)
  \/ \E p \in Procs : ExchangeEvent(p)

SpecConnect == InitConnect /\ [][NextConnect]_vars

-----------------------------------------------------------------------------
(* routes/operators.ts: DELETE /agents/:id, the one delete a handler        *)
(* issues.  The foreign keys of events and commands to agents are declared  *)
(* in the initial schema; the design has the store keep every command and   *)
(* every event, so a delete of the agent row either succeeds and leaves     *)
(* them alone or is refused by the store.  The later migrations say what    *)
(* happens to the other references: connect intents go with their agent,    *)
(* and claimed_by_agent_id is set to null.                                   *)

DeleteRead(p, agentId) ==
  /\ pc[p] = "idle"
  /\ Room(1)
  /\ IF agentId \notin DOMAIN agents
       THEN Respond(p, Response(404, "delete", agentId, 0))
       ELSE Goto(p, "delete_count", [NoReq EXCEPT !.op = "delete", !.agent = agentId])
  /\ UNCHANGED <<now, commands, results, events, published, clients>>

DeleteCount(p) ==
  /\ pc[p] = "delete_count"
  /\ IF \E c \in CmdIds : commands[c].agent_id = req[p].agent
       THEN Respond(p, Answer(p, 409))
       ELSE Goto(p, "delete_event", req[p])
  /\ UNCHANGED <<now, commands, results, events, published, clients>>

DeleteEvent(p) ==
  /\ pc[p] = "delete_event"
  /\ createEvent("agent.deleted", "info", req[p].agent, 0, NullText, NULL)
  /\ Goto(p, "delete_row", req[p])
  /\ UNCHANGED <<now, commands, results, published, clients>>

\* delete from agents where id = agentId, as the store carries it out.
DeleteRow_CascadeEvents(p) ==
  /\ agents' = [a \in DOMAIN agents \ {req[p].agent} |-> agents[a]]
  /\ intents' = SelectSeq(intents, LAMBDA i : i.agent_id # req[p].agent)
  /\ commands' = [c \in CmdIds |->
                    IF commands[c].claimed_by_agent_id = req[p].agent
                      THEN [commands[c] EXCEPT !.claimed_by_agent_id = NoAgent]
                      ELSE commands[c]]
  /\ events' = SelectSeq(events, LAMBDA e : e.agent_id # req[p].agent)

DeleteRow(p) ==
  /\ agents' = [a \in DOMAIN agents \ {req[p].agent} |-> agents[a]]
  /\ intents' = SelectSeq(intents, LAMBDA i : i.agent_id # req[p].agent)
  /\ commands' = [c \in CmdIds |->
                    IF commands[c].claimed_by_agent_id = req[p].agent
                      THEN [commands[c] EXCEPT !.claimed_by_agent_id = NoAgent]
                      ELSE commands[c]]
  /\ UNCHANGED events

DeleteAgent(p) ==
  /\ pc[p] = "delete_row"
  /\ \/ /\ DeleteRow(p)
        /\ StepOut(p, Answer(p, 200))
     \/ /\ UNCHANGED <<agents, intents, commands, events>>
        /\ StepOut(p, Answer(p, 500))
  /\ UNCHANGED <<now, results, published, clients>>
  /\ UNCHANGED <<clientsByCommand, streams>>
  /\ UNCHANGED histVars

\* A command for an agent that has no row is refused by the store.
CreateRefused(p, agentId) ==
  /\ pc[p] = "idle"
  /\ agentId \notin DOMAIN agents
  /\ Respond(p, Response(500, "create", agentId, 0))
  /\ UNCHANGED <<now, commands, results, events, published, clients>>

\* The agents that can call: requireAgent finds their row.
Callers == TargetAgents \cap DOMAIN agents

NextStore ==
  \/ \E a \in Agents : DeleteRead(1, a)
  \/ DeleteCount(1)
  \/ DeleteEvent(1)
  \/ DeleteAgent(1)
  \/ \E a \in TargetAgents : CreateRefused(1, a)
  \/ \E a \in Callers, pr \in CreatePriorities : CreateInsert(1, a, pr)
  \/ CreateEvent(1)
  \/ CreatePublish(1)
  \/ \E a \in Callers : ClaimRpcSelect(1, a, MinMaxClaims, MinLeaseSeconds, 0)
  \/ ClaimRpcUpdate(1)
  \/ ClaimEvents(1)
  \/ ClaimPublish(1)
  \/ \E id \in CmdIds : CancelRead(1, id)
  \/ CancelUpdate(1)
  \/ CancelEvent(1)
  \/ CancelPublish(1)
  \/ \E a \in Callers, id \in CmdIds : ExtendRead(1, a, id, MinLeaseSeconds)
  \/ ExtendUpdate(1)
  \/ ExtendEvent(1)
  \/ \E a \in Callers, id \in CmdIds : ReleaseRead(1, a, id, NullText)
  \/ ReleaseUpdate(1)
  \/ ReleaseEvent(1)
  \/ ReleasePublish(1)
  \/ \E a \in Callers, id \in CmdIds, st \in {"dispatching", "executing"} :
       ProgressRead(1, a, id, st)
  \/ ProgressUpdate(1)
  \/ ProgressEvent(1)
  \/ ProgressPublish(1)
  \/ \E a \in Callers, id \in CmdIds, f \in BOOLEAN : ResultRead(1, a, id, 0, f)
  \/ ResultInsert(1)
  \/ ResultUpdate(1)
  \/ ResultEvent(1)
  \/ ResultPublish(1)
  \/ \E a \in Callers, id \in CmdIds, e \in ErrorMessages : FailRead(1, a, id, e)
  \/ FailUpdate(1)
  \/ FailEvent(1)
  \/ FailPublish(1)

SpecStore == Init /\ [][NextStore]_vars

-----------------------------------------------------------------------------
(* Long-polling claim calls.  Slot 1 makes up to MaxPolls claim calls, one  *)
(* after the other, while slot 2 creates a command; the clock moves in      *)
(* steps of half a second.  claimPolls records, for each call, when it      *)
(* started, its waitMs, every attempt (its v_now and the number of commands *)
(* it took), every sleep it asked for, and its answer.                      *)

InitPoll ==
  /\ now = 0
  /\ commands = <<>>
  /\ results = <<>>
  /\ events = <<>>
  /\ published = <<>>
  /\ pc = [p \in Procs |-> "idle"]
  /\ req = [p \in Procs |-> NoReq]
  /\ response = NoResponse
  /\ claimCalls = <<>>
  /\ ctCalls = <<>>
  /\ clientsByCommand = <<>>
  /\ clients = <<>>
  /\ hubCalls = <<>>
  /\ claimPolls = <<>>
  /\ streams = <<>>
  /\ agents = RegisteredAgents
  /\ intents = <<>>
  /\ exchangeCalls = <<>>
  /\ eventFailures = 0
  /\ wire = NoWire
  /\ taskLogs = <<>>
  /\ logCalls = <<>>

Attempt(p) == [at |-> req'[p].vNow, taken |-> Len(req'[p].items)]

\* A call is taken only while the clock has room for its whole wait.
PollSelect(p, agentId, waitMs) ==
  /\ Len(claimPolls) < MaxPolls
  /\ now + waitMs + MaxSleepMs <= MaxPollTime
  /\ ClaimRpcSelectCore(p, agentId, MinMaxClaims, MinLeaseSeconds, waitMs)
  /\ claimPolls' = Append(claimPolls,
                          [start |-> now, waitMs |-> waitMs,
                           attempts |-> <<Attempt(p)>>, sleeps |-> <<>>,
                           answered |-> FALSE, answerAt |-> 0, returned |-> 0])
  /\ UNCHANGED <<claimCalls, ctCalls, hubCalls, exchangeCalls, eventFailures>>

PollWake(p) ==
  /\ ClaimWakeCore(p)
  /\ claimPolls' = [claimPolls EXCEPT ![Len(claimPolls)].attempts = Append(@, Attempt(p))]
  /\ UNCHANGED <<claimCalls, ctCalls, hubCalls, exchangeCalls, eventFailures>>

PollRpcUpdate(p) ==
  /\ ClaimRpcUpdateCore(p)
  /\ claimPolls' =
       IF pc'[p] = "idle"
         THEN [claimPolls EXCEPT ![Len(claimPolls)].answered = TRUE,
                                 ![Len(claimPolls)].answerAt = now]
       ELSE IF pc'[p] = "claim_sleep"
         THEN [claimPolls EXCEPT ![Len(claimPolls)].sleeps =
                                   Append(@, req'[p].wakeAt - now)]
       ELSE claimPolls
  /\ UNCHANGED <<claimCalls, ctCalls, hubCalls, exchangeCalls, eventFailures>>

PollPublish(p) ==
  /\ ClaimPublishCore(p)
  /\ claimPolls' = [claimPolls EXCEPT ![Len(claimPolls)].answered = TRUE,
                                      ![Len(claimPolls)].answerAt = now,
                                      ![Len(claimPolls)].returned = Len(req[p].items)]
  /\ UNCHANGED <<claimCalls, ctCalls, hubCalls, exchangeCalls, eventFailures>>

PollTick == \E d \in PollTickSteps : now + d <= MaxPollTime /\ Tick(d)

NextPoll ==
  \/ PollTick
  \/ \E a \in TargetAgents, w \in PollWaitChoices : PollSelect(1, a, w)
  \/ PollWake(1)
  \/ PollRpcUpdate(1)
  \/ ClaimEvents(1)
  \/ PollPublish(1)
  \/ CreateRequests({2})

\* The clock advances, timers fire, and every awaited call on the store
\* returns.
SpecPoll ==
  /\ InitPoll
  /\ [][NextPoll]_vars
  /\ WF_vars(PollTick)
  /\ WF_vars(PollWake(1))
  /\ WF_vars(PollRpcUpdate(1))
  /\ WF_vars(ClaimEvents(1))
  /\ WF_vars(PollPublish(1))

-----------------------------------------------------------------------------
(* Calls of the lifecycle validator on any pair of statuses. *)

CallCanTransition(from, to) ==
  /\ Len(ctCalls) < MaxCalls
  /\ ctCalls' = Append(ctCalls, [from |-> from, to |-> to,
                                 result |-> canTransition(from, to)])
  /\ UNCHANGED <<now, commands, results, events, published, pc, req, response, claimCalls>>
  /\ UNCHANGED <<clientsByCommand, clients, hubCalls, claimPolls, exchangeCalls, eventFailures>>
  /\ UNCHANGED registryVars
  /\ UNCHANGED wire
  /\ UNCHANGED taskVars

NextCT == \E from \in CommandStatus, to \in CommandStatus : CallCanTransition(from, to)

SpecCT == Init /\ [][NextCT]_vars

-----------------------------------------------------------------------------
(* Calls on the realtime hub: streams subscribe to a topic, their           *)
(* unsubscribe functions are called, any number of times, and handlers      *)
(* publish.  hubCalls records the calls in order.                           *)

HubSubscribe(t) ==
  /\ Len(hubCalls) < MaxHubCalls
  /\ subscribe(t)
  /\ hubCalls' = Append(hubCalls, [op |-> "subscribe", commandId |-> t,
                                   client |-> Len(clients) + 1, payload |-> NoPayload])
  /\ UNCHANGED <<now, commands, results, events, published, pc, req, response>>
  /\ UNCHANGED <<claimCalls, ctCalls, claimPolls, exchangeCalls, eventFailures>>
  /\ UNCHANGED registryVars
  /\ UNCHANGED wire
  /\ UNCHANGED taskVars

HubUnsubscribe(i) ==
  /\ Len(hubCalls) < MaxHubCalls
  /\ unsubscribe(i)
  /\ hubCalls' = Append(hubCalls, [op |-> "unsubscribe", commandId |-> clients[i].commandId,
                                   client |-> i, payload |-> NoPayload])
  /\ UNCHANGED <<now, commands, results, events, published, pc, req, response>>
  /\ UNCHANGED <<claimCalls, ctCalls, claimPolls, exchangeCalls, eventFailures>>
  /\ UNCHANGED registryVars
  /\ UNCHANGED wire
  /\ UNCHANGED taskVars

HubPublish(t, status) ==
  /\ Len(hubCalls) < MaxHubCalls
  /\ publish(t, status, "command.progress")
  /\ hubCalls' = Append(hubCalls, [op |-> "publish", commandId |-> t, client |-> 0,
                                   payload |-> Payload(t, status, "command.progress")])
  /\ UNCHANGED <<now, commands, results, events, pc, req, response>>
  /\ UNCHANGED <<clientsByCommand, claimCalls, ctCalls, claimPolls, exchangeCalls, eventFailures>>
  /\ UNCHANGED registryVars
  /\ UNCHANGED wire
  /\ UNCHANGED taskVars

NextHub ==
  \/ \E t \in Topics : HubSubscribe(t)
  \/ \E i \in 1..Len(clients) : HubUnsubscribe(i)
  \/ \E t \in Topics, st \in PublishedStatuses : HubPublish(t, st)

SpecHub == Init /\ [][NextHub]_vars

-----------------------------------------------------------------------------
(* Stream requests: GET /commands/:id/stream and GET                        *)
(* /agents/:id/code/sessions/:sessionId/stream.  Both run after the router's*)
(* requireUser, which awaits the token check and the profile read; the      *)
(* handler then writes the ready event, subscribes its response to the hub  *)
(* under its topic and registers a listener for the request's close event,  *)
(* all in one synchronous run.  The client can close the connection at any  *)
(* time; the close event is emitted once, to the listeners registered then. *)

NewStream(t) ==
  [topic |-> t, phase |-> "auth", connected |-> TRUE, listening |-> FALSE,
   client |-> 0, ended |-> FALSE]

StreamConnect(t) ==
  /\ Len(streams) < MaxStreams
  /\ streams' = Append(streams, NewStream(t))
  /\ UNCHANGED <<now, commands, results, events, published, pc, req, response>>
  /\ UNCHANGED <<clientsByCommand, clients, agents, intents>>
  /\ UNCHANGED histVars
  /\ UNCHANGED wire
  /\ UNCHANGED taskVars

\* requireUser answers 401: the handler does not run.
StreamRejected(i) ==
  /\ streams[i].phase = "auth"
  /\ streams' = [streams EXCEPT ![i].phase = "rejected", ![i].ended = TRUE]
  /\ UNCHANGED <<now, commands, results, events, published, pc, req, response>>
  /\ UNCHANGED <<clientsByCommand, clients, agents, intents>>
  /\ UNCHANGED histVars
  /\ UNCHANGED wire
  /\ UNCHANGED taskVars

\* requireUser calls next(): the handler runs.
StreamOpen(i) ==
  /\ streams[i].phase = "auth"
  /\ subscribe(streams[i].topic)
  /\ streams' = [streams EXCEPT ![i].phase = "open", ![i].listening = TRUE,
                                ![i].client = Len(clients) + 1]
  /\ UNCHANGED <<now, commands, results, events, published, pc, req, response>>
  /\ UNCHANGED <<agents, intents>>
  /\ UNCHANGED histVars
  /\ UNCHANGED wire
  /\ UNCHANGED taskVars

\* The listener of the close event: unsubscribe(); response.end().
StreamOnClose(i) ==
  /\ unsubscribe(streams[i].client)
  /\ streams' = [streams EXCEPT ![i].connected = FALSE, ![i].ended = TRUE]

\* The client closes the connection.
StreamClose(i) ==
  /\ streams[i].connected
  /\ IF streams[i].listening
       THEN StreamOnClose(i)
       ELSE /\ streams' = [streams EXCEPT ![i].connected = FALSE]
            /\ UNCHANGED <<clientsByCommand, clients>>
  /\ UNCHANGED <<now, commands, results, events, published, pc, req, response>>
  /\ UNCHANGED <<agents, intents>>
  /\ UNCHANGED histVars
  /\ UNCHANGED wire
  /\ UNCHANGED taskVars

StreamPublish(t, status) ==
  /\ Len(published) < MaxStreamPublishes
  /\ publish(t, status, "command.progress")
  /\ UNCHANGED <<now, commands, results, events, pc, req, response>>
  /\ UNCHANGED <<clientsByCommand, streams, agents, intents>>
  /\ UNCHANGED histVars
  /\ UNCHANGED wire
  /\ UNCHANGED taskVars

NextStream ==
  \/ \E t \in Topics : StreamConnect(t)
  \/ \E i \in 1..Len(streams) : StreamRejected(i)
  \/ \E i \in 1..Len(streams) : StreamOpen(i)
  \/ \E i \in 1..Len(streams) : StreamClose(i)
  \/ \E t \in Topics, st \in PublishedStatuses : StreamPublish(t, st)

SpecStream == Init /\ [][NextStream]_vars

-----------------------------------------------------------------------------
(* The transition table as section 4.1 of the design states it. *)

TransitionTable ==
  {<<"draft", "queued">>,
   <<"queued", "dispatching">>, <<"queued", "cancelled">>, <<"queued", "failed">>,
   <<"dispatching", "executing">>, <<"dispatching", "failed">>,
   <<"dispatching", "cancelled">>,
   <<"executing", "executing">>, <<"executing", "completed">>,
   <<"executing", "failed">>, <<"executing", "cancelled">>}

Terminal == {"completed", "failed", "cancelled"}

\* C1: canTransition(from, to) is true exactly for the pairs of the transition
\* table, and so false for every same-status pair but executing -> executing
\* and for every pair that leaves completed, failed or cancelled.
C1_CanTransitionIsTheTable ==
  \A i \in 1..Len(ctCalls) :
    /\ ctCalls[i].result = (<<ctCalls[i].from, ctCalls[i].to>> \in TransitionTable)
    /\ (ctCalls[i].from = ctCalls[i].to /\ ctCalls[i].to # "executing")
         => ~ctCalls[i].result
    /\ ctCalls[i].from \in Terminal => ~ctCalls[i].result

C1_Witness ==
  /\ \E i \in 1..Len(ctCalls) :
       ctCalls[i].from = "executing" /\ ctCalls[i].to = "executing" /\ ctCalls[i].result
  /\ \E i \in 1..Len(ctCalls) :
       ctCalls[i].from = "completed" /\ ctCalls[i].to = "queued" /\ ~ctCalls[i].result

-----------------------------------------------------------------------------
ReturnedBy(a) ==
  UNION {Range(claimCalls[i].items) : i \in {j \in 1..Len(claimCalls) : claimCalls[j].agent = a}}

MaxClaimsSum(a) ==
  SumOver([i \in 1..Len(claimCalls) |->
             IF claimCalls[i].agent = a THEN claimCalls[i].maxClaims ELSE 0],
          1..Len(claimCalls))

QueuedFor(a) == {c \in CmdIds : commands[c].agent_id = a}

\* C2: claim exclusivity.  Of the claim calls answered so far, in any
\* interleaving, no two return the same command id and none returns an id
\* twice; and the ids returned to agent A are at most min(N, sum of the calls'
\* maxClaims), N being the number of commands queued for A.
C2_ClaimExclusivity ==
  /\ \A i, j \in 1..Len(claimCalls) :
       i # j => Range(claimCalls[i].items) \cap Range(claimCalls[j].items) = {}
  /\ \A i \in 1..Len(claimCalls) :
       Cardinality(Range(claimCalls[i].items)) = Len(claimCalls[i].items)
  /\ \A a \in Agents :
       Cardinality(ReturnedBy(a)) <= Min(Cardinality(QueuedFor(a)), MaxClaimsSum(a))

\* Two calls of one agent raced for two queued commands and each got one.
C2_Witness ==
  /\ Len(claimCalls) = 2
  /\ claimCalls[1].agent = claimCalls[2].agent
  /\ Len(claimCalls[1].items) = 1
  /\ Len(claimCalls[2].items) = 1
  /\ claimCalls[2].maxClaims = 2
  /\ Cardinality(QueuedFor(claimCalls[1].agent)) = 2

-----------------------------------------------------------------------------
\* C3: claimed_by_agent_id is non-null only while the command's status is
\* dispatching or executing.
C3_ClaimedOnlyWhileActive ==
  \A c \in CmdIds :
    commands[c].claimed_by_agent_id # NoAgent
      => commands[c].status \in {"dispatching", "executing"}

-----------------------------------------------------------------------------
\* The step changes the status of command c.
StatusChanged(c) == commands'[c].status # commands[c].status

\* The step is the store update of a release call on command c.
ReleaseWrites(c) ==
  \E p \in Slots :
    pc[p] = "release_update" /\ pc'[p] = "release_event" /\ req[p].cmd = c

\* C4 as stated: with one call at a time, every status change that claim,
\* release, progress, appendResult, fail or cancel persists is a pair of the
\* transition table.
C4_OnlyTableTransitions ==
  [][\A c \in CmdIds :
       StatusChanged(c) => <<commands[c].status, commands'[c].status>> \in TransitionTable]_vars

\* C4, amended: with one call at a time, every status change that claim,
\* progress, appendResult, fail or cancel persists is a pair of the transition
\* table; release persists dispatching -> queued or executing -> queued, which
\* the table does not hold, and nothing else.
C4_TableTransitionsButRelease ==
  [][\A c \in CmdIds :
       StatusChanged(c) =>
         IF ReleaseWrites(c)
           THEN /\ commands[c].status \in {"dispatching", "executing"}
                /\ commands'[c].status = "queued"
                /\ <<commands[c].status, commands'[c].status>> \notin TransitionTable
           ELSE <<commands[c].status, commands'[c].status>> \in TransitionTable]_vars

\* A command was claimed, released with a reason and then cancelled.
C4_Witness ==
  \E c \in CmdIds :
    /\ commands[c].status = "cancelled"
    /\ commands[c].attempt_count = 1
    /\ commands[c].last_claim_error = "busy"

-----------------------------------------------------------------------------
\* C5: no status update is lost under racing calls.  In any interleaving of
\* progress, appendResult, fail, cancel and release calls on one command,
\* every status write is a legal transition from the status stored when it is
\* written (release's return to queued aside), and a command whose stored
\* status is completed, failed or cancelled never changes status again.
C5_NoLostStatusUpdate ==
  [][\A c \in CmdIds :
       /\ (StatusChanged(c) /\ ~ReleaseWrites(c))
            => <<commands[c].status, commands'[c].status>> \in TransitionTable
       /\ commands[c].status \in Terminal => ~StatusChanged(c)]_vars

-----------------------------------------------------------------------------
\* The step is the candidate selection of a claim call in slot p.
ClaimSelects(p) == pc[p] \in {"idle", "claim_sleep"} /\ pc'[p] = "claim_rpc"

\* Command c is held by agent a: claimed by a and not released or finished.
HeldBy(c, a) ==
  /\ commands[c].claimed_by_agent_id = a
  /\ commands[c].status \in {"dispatching", "executing"}

\* C6: lease expiry.  A command that agent A holds under a lease is not
\* selected by a claim call of A made before the lease has run out, and is
\* selected by the claim call of A made once the lease has run out.
C6_LeaseExpiry ==
  [][\A p \in Slots : ClaimSelects(p) =>
       \A c \in CmdIds : HeldBy(c, req'[p].agent) =>
         (c \in Range(req'[p].items) <=> commands[c].lease_expires_at <= req'[p].vNow)]_vars

-----------------------------------------------------------------------------
\* The latest audit event of command c.
LastEventOf(c) ==
  LET idx == {i \in 1..Len(events) : events[i].command_id = c}
  IN events[CHOOSE i \in idx : \A j \in idx : j <= i]

\* Agent a released command c and nothing has been done to c since.
JustReleasedBy(c, a) ==
  /\ \E i \in 1..Len(events) : events[i].command_id = c
  /\ LastEventOf(c).event_type = "command.released"
  /\ LastEventOf(c).agent_id = a

\* C7: release round-trip.  After agent A has claimed a command and released
\* it, the very next claim call of A, with no other command queued for A,
\* selects exactly that command, whether or not the former lease has run out.
C7_ReleaseRoundTrip ==
  [][\A p \in Slots : ClaimSelects(p) =>
       \A c \in CmdIds :
         (/\ JustReleasedBy(c, req'[p].agent)
          /\ \A d \in CmdIds \ {c} :
               commands[d].agent_id # req'[p].agent \/ commands[d].status # "queued")
           => req'[p].items = <<c>>]_vars

\* A command claimed at time 0 under a lease was released and claimed again at
\* time 0, before that lease would have run out.
C7_Witness ==
  \E c \in CmdIds :
    /\ commands[c].attempt_count = 2
    /\ commands[c].status = "dispatching"
    /\ commands[c].claimed_at = 0
    /\ \E i \in 1..Len(events) :
         events[i].command_id = c /\ events[i].event_type = "command.released"

-----------------------------------------------------------------------------
\* The calls an agent makes on one command.
AgentOps == {"progress", "result", "fail", "release", "extend"}

\* The step answers an agent's call on an existing command of another agent.
AnswersForeignCall ==
  /\ response'.op \in AgentOps
  /\ response'.cmd \in CmdIds
  /\ commands[response'.cmd].agent_id # response'.agent

\* C8: ownership enforcement.  progress, appendResult, fail, release and
\* extendLease called on an existing command whose agent_id is not the caller
\* are answered 403 by a step that changes neither the commands, the result
\* rows, the event log nor the hub output, whatever the command's status; no
\* such call ever gets past its ownership check.
C8_OwnershipEnforced ==
  [][/\ AnswersForeignCall => (response'.code = 403 /\ UNCHANGED storeVars)
     /\ \A p \in Slots :
          req'[p].op \in AgentOps => commands'[req'[p].cmd].agent_id = req'[p].agent]_vars

\* Agent B's appendResult on a completed command of agent A with a result row
\* was answered 403.
C8_Witness ==
  /\ response.code = 403
  /\ response.op = "result"
  /\ response.cmd \in CmdIds
  /\ commands[response.cmd].agent_id # response.agent
  /\ commands[response.cmd].status = "completed"
  /\ results # <<>>

-----------------------------------------------------------------------------
\* The step takes in a cancel call on a command that is completed, failed or
\* cancelled, and answers it.
AnswersCancelOfTerminal ==
  /\ \A p \in Slots : pc[p] = "idle"
  /\ response'.op = "cancel"
  /\ response'.cmd \in CmdIds
  /\ commands[response'.cmd].status \in Terminal

\* C10: cancel on a command whose status is completed, failed or cancelled is
\* answered 409 by a step that leaves the command (its status and
\* completed_at with it) unchanged, writes no audit event and publishes no
\* notification; no cancel of such a command gets past its transition check.
C10_CancelTerminalConflict ==
  [][/\ AnswersCancelOfTerminal => (response'.code = 409 /\ UNCHANGED storeVars)
     /\ \A p \in Slots :
          (pc[p] = "idle" /\ pc'[p] = "cancel_update")
            => commands[req'[p].cmd].status \notin Terminal]_vars

\* A cancel of a completed command was answered 409.
C10_Witness ==
  /\ response.code = 409
  /\ response.op = "cancel"
  /\ response.cmd \in CmdIds
  /\ commands[response.cmd].status = "completed"
  /\ commands[response.cmd].completed_at # NULL

-----------------------------------------------------------------------------
\* What the audit log tells of command c: each event's type, status and chunk.
AuditTrail(c) ==
  LET es == SelectSeq(events, LAMBDA e : e.command_id = c)
  IN [i \in 1..Len(es) |-> <<es[i].event_type, es[i].status, es[i].chunk_index>>]

\* create, claim, progress(executing), appendResult(0, not final),
\* appendResult(1, final), as the audit log tells them.
Scenario ==
  <<<<"command.created", NullText, NULL>>,
    <<"command.claimed", NullText, NULL>>,
    <<"command.progress", "executing", NULL>>,
    <<"command.result_chunk", NullText, 0>>,
    <<"command.completed", NullText, 1>>>>

FinalRows(c) == {i \in 1..Len(results) : results[i].command_id = c /\ results[i].is_final}

\* The first k calls of the scenario, and no other call, have been served on
\* command c (a finalize that was refused leaves a final row and no event).
Served(c, k) ==
  /\ \A p \in Slots : pc[p] = "idle"
  /\ AuditTrail(c) = SubSeq(Scenario, 1, k)
  /\ Cardinality(FinalRows(c)) = IF k = 5 THEN 1 ELSE 0

\* C9: the end-to-end scenario.  A created command is queued; once its agent
\* has claimed it, it is dispatching and claimed by that agent; after
\* progress(executing) it is executing with started_at set; after
\* appendResult(0, not final) it is still executing with one result row; after
\* appendResult(1, final) it is completed with completed_at set and its two
\* result rows read back in chunk order.
C9_EndToEnd ==
  \A c \in CmdIds :
    /\ Served(c, 1) => commands[c].status = "queued"
    /\ Served(c, 2) =>
         /\ commands[c].status = "dispatching"
         /\ commands[c].claimed_by_agent_id = commands[c].agent_id
    /\ Served(c, 3) =>
         /\ commands[c].status = "executing"
         /\ commands[c].started_at # NULL
    /\ Served(c, 4) =>
         /\ commands[c].status = "executing"
         /\ \A s \in GetResults(c) : Len(s) = 1 /\ s[1].chunk_index = 0
    /\ Served(c, 5) =>
         /\ commands[c].status = "completed"
         /\ commands[c].completed_at # NULL
         /\ \A s \in GetResults(c) :
              /\ Len(s) = 2
              /\ s[1].chunk_index = 0 /\ ~s[1].is_final
              /\ s[2].chunk_index = 1 /\ s[2].is_final

\* The whole scenario has been served on a command.
C9_Witness ==
  \E c \in CmdIds :
    /\ Served(c, 5)
    /\ commands[c].status = "completed"
    /\ GetResults(c) # {}

-----------------------------------------------------------------------------
\* The positions in hubCalls of the calls that subscribed client i and that
\* called its unsubscribe function.
SubscribedAt(i) ==
  {k \in 1..Len(hubCalls) : hubCalls[k].op = "subscribe" /\ hubCalls[k].client = i}

UnsubscribedAt(i) ==
  {k \in 1..Len(hubCalls) : hubCalls[k].op = "unsubscribe" /\ hubCalls[k].client = i}

\* Client i was registered when call k was made.
RegisteredAt(i, k) ==
  /\ \E j \in SubscribedAt(i) : j < k
  /\ \A j \in UnsubscribedAt(i) : j > k

\* What the calls made so far must have written to client i: the payloads
\* published on its topic while it was registered, in order.
Due(i) ==
  LET numbered == [k \in 1..Len(hubCalls) |-> [k |-> k, call |-> hubCalls[k]]]
      mine == SelectSeq(numbered,
                        LAMBDA c : /\ c.call.op = "publish"
                                   /\ c.call.commandId = clients[i].commandId
                                   /\ RegisteredAt(i, c.k))
  IN [j \in 1..Len(mine) |-> mine[j].call.payload]

\* C11: hub delivery.  A publish writes its payload exactly once to each
\* subscriber registered for its topic when it is made and to no one else: not
\* to a subscriber of another topic, not to one that registers later; with no
\* subscriber it writes nothing.
C11_HubDelivery ==
  \A i \in 1..Len(clients) : clients[i].written = Due(i)

\* A publish found no subscriber; a later one was written to the topic's
\* subscriber, not to the other topic's, and not to a subscriber that came
\* after it.
C11_Witness ==
  /\ Len(hubCalls) = 5
  /\ hubCalls[1].op = "publish"
  /\ hubCalls[4].op = "publish"
  /\ \E i, j, k \in 1..Len(clients) :
       /\ clients[i].written = <<hubCalls[4].payload>>
       /\ clients[j].commandId # clients[i].commandId /\ clients[j].written = <<>>
       /\ k # i /\ clients[k].commandId = clients[i].commandId /\ clients[k].written = <<>>
       /\ Registered(i) /\ Registered(j) /\ Registered(k)

-----------------------------------------------------------------------------
\* The step is a call of client i's unsubscribe function.
UnsubscribeCalled(i) ==
  /\ Len(hubCalls') = Len(hubCalls) + 1
  /\ hubCalls'[Len(hubCalls')].op = "unsubscribe"
  /\ hubCalls'[Len(hubCalls')].client = i

\* C12: hub unsubscribe.  Once a subscriber's unsubscribe function has been
\* called, nothing is written to it any more and it is in no topic's set; the
\* call leaves every other subscriber registered as it was; and a repeated
\* call, also after the topic was removed and made anew, changes nothing.
C12_HubUnsubscribe ==
  [][\A i \in 1..Len(clients) :
       /\ UnsubscribedAt(i) # {} =>
            /\ clients'[i].written = clients[i].written
            /\ \A t \in DOMAIN clientsByCommand' : i \notin clientsByCommand'[t]
       /\ UnsubscribeCalled(i) =>
            /\ \A t \in DOMAIN clientsByCommand' : i \notin clientsByCommand'[t]
            /\ \A j \in 1..Len(clients) \ {i} :
                 /\ clients'[j] = clients[j]
                 /\ \A t \in Topics :
                      (t \in DOMAIN clientsByCommand /\ j \in clientsByCommand[t])
                        <=> (t \in DOMAIN clientsByCommand' /\ j \in clientsByCommand'[t])
       /\ (UnsubscribeCalled(i) /\ UnsubscribedAt(i) # {}) =>
            UNCHANGED <<clientsByCommand, clients>>]_vars

\* A subscriber was unsubscribed, which removed its topic; a second subscriber
\* made the topic anew; the first one's unsubscribe function was called again
\* and a publish then reached the second subscriber only.
C12_Witness ==
  /\ Len(hubCalls) = 5
  /\ hubCalls[2].op = "unsubscribe" /\ hubCalls[2].client = 1
  /\ hubCalls[3].op = "subscribe" /\ hubCalls[3].commandId = clients[1].commandId
  /\ hubCalls[4].op = "unsubscribe" /\ hubCalls[4].client = 1
  /\ hubCalls[5].op = "publish" /\ hubCalls[5].commandId = clients[1].commandId
  /\ clients[1].written = <<>>
  /\ clients[2].written = <<hubCalls[5].payload>>

-----------------------------------------------------------------------------
\* Client i has subscribed and its unsubscribe function was never called.
Live(i) == SubscribedAt(i) # {} /\ UnsubscribedAt(i) = {}

\* C13: the registry holds no topic with an empty subscriber set: a topic has
\* an entry if and only if it has a live subscriber.
C13_NoEmptyTopic ==
  /\ \A t \in DOMAIN clientsByCommand : clientsByCommand[t] # {}
  /\ \A t \in Topics :
       t \in DOMAIN clientsByCommand
         <=> \E i \in 1..Len(clients) : Live(i) /\ clients[i].commandId = t

\* Both topics had a subscriber; one topic lost its only subscriber and its
\* entry, the other is still there.
C13_Witness ==
  /\ Len(clients) = 2
  /\ clients[1].commandId # clients[2].commandId
  /\ UnsubscribedAt(1) # {}
  /\ Live(2)
  /\ DOMAIN clientsByCommand = {clients[2].commandId}
  /\ \E k \in 1..Len(hubCalls) : hubCalls[k].op = "publish"

-----------------------------------------------------------------------------
\* No request is in flight before the step: the step takes a call in.
TakesCall == \A p \in Slots : pc[p] = "idle"

\* The step takes in a call of operation op and answers it at once.
Refuses(op) == TakesCall /\ response'.op = op

\* The step takes in a call of operation op in slot p and lets it go on.
Admits(p, op) == pc[p] = "idle" /\ pc'[p] # "idle" /\ req'[p].op = op

\* Agent a holds the claim on command c and may extend or release it.
ClaimHeld(c, a) ==
  /\ c \in CmdIds
  /\ commands[c].agent_id = a
  /\ commands[c].claimed_by_agent_id = a
  /\ commands[c].status \in {"dispatching", "executing"}

\* C14: extendLease goes through only when the command exists, its agent_id
\* and claimed_by_agent_id are the caller and its status is dispatching or
\* executing, and then changes only lease_expires_at, to the time of the call
\* plus leaseSeconds; otherwise it is answered 404 when the command does not
\* exist, 403 when agent_id is not the caller and 409 in every other case,
\* and nothing is changed.
C14_ExtendLease ==
  [][/\ Refuses("extend") =>
          /\ ~ClaimHeld(response'.cmd, response'.agent)
          /\ response'.code =
               IF response'.cmd \notin CmdIds THEN 404
               ELSE IF commands[response'.cmd].agent_id # response'.agent THEN 403
               ELSE 409
          /\ UNCHANGED storeVars
     /\ \A p \in Slots :
          /\ Admits(p, "extend") =>
               (ClaimHeld(req'[p].cmd, req'[p].agent) /\ UNCHANGED storeVars)
          /\ (pc[p] = "extend_update" /\ pc'[p] # pc[p]) =>
               commands' = [commands EXCEPT ![req[p].cmd].lease_expires_at =
                                              req[p].vNow + req[p].leaseSeconds * 1000]
          /\ (pc[p] = "extend_event" /\ pc'[p] # pc[p]) =>
               (response'.code = 200 /\ commands' = commands)]_vars

\* A lease was extended at time 15000, past the claim's own expiry, and a
\* later extendLease on the then completed command was answered 409.
C14_Witness ==
  /\ response.op = "extend"
  /\ response.code = 409
  /\ response.cmd \in CmdIds
  /\ commands[response.cmd].status = "completed"
  /\ commands[response.cmd].claimed_by_agent_id = response.agent
  /\ commands[response.cmd].lease_expires_at > 15000 + 15000
  /\ \E i \in 1..Len(events) : events[i].event_type = "command.lease_extended"

-----------------------------------------------------------------------------
\* C15: a progress call of the owning agent gets past its checks only with a
\* new status the transition table allows from the command's current status;
\* a call that does not get past them is answered 409 (404 when the command
\* is missing) by a step that changes nothing: status and started_at stay,
\* no audit event is written and nothing is published.
C15_ProgressConflict ==
  [][/\ Refuses("progress") =>
          /\ response'.code =
               IF response'.cmd \notin CmdIds THEN 404
               ELSE IF commands[response'.cmd].agent_id # response'.agent THEN 403
               ELSE 409
          /\ UNCHANGED storeVars
     /\ \A p \in Slots : Admits(p, "progress") =>
          /\ commands[req'[p].cmd].agent_id = req'[p].agent
          /\ <<commands[req'[p].cmd].status, req'[p].newStatus>> \in TransitionTable
          /\ UNCHANGED storeVars]_vars

\* The owner's progress call on a queued command was answered 409 (the call
\* asked for executing: dispatching would have been let through).
C15_Witness ==
  /\ response.op = "progress"
  /\ response.code = 409
  /\ response.cmd \in CmdIds
  /\ commands[response.cmd].agent_id = response.agent
  /\ commands[response.cmd].status = "queued"
  /\ commands[response.cmd].started_at = NULL

-----------------------------------------------------------------------------
\* The step is the insert of the owner's final result chunk, into a command
\* whose stored status is not executing.
InsertsRefusedFinal(p) ==
  /\ pc[p] = "result_insert"
  /\ pc'[p] # pc[p]
  /\ req[p].isFinal
  /\ commands[req[p].cmd].agent_id = req[p].agent
  /\ commands[req[p].cmd].status # "executing"

\* C16: appendResult with isFinal = true by the owner on a command whose
\* status is not executing persists the chunk and is then answered 409; the
\* command (status and completed_at with it) is unchanged, no audit event is
\* written and nothing is published.
C16_FinalizeConflict ==
  [][\A p \in Slots : InsertsRefusedFinal(p) =>
       /\ results' = Append(results, [command_id |-> req[p].cmd,
                                      chunk_index |-> req[p].chunkIndex,
                                      is_final |-> TRUE])
       /\ response' = Response(409, "result", req[p].agent, req[p].cmd)
       /\ pc'[p] = "idle"
       /\ UNCHANGED <<commands, events, published, clients>>]_vars

\* A final chunk sent for a dispatching command was answered 409; its row is
\* there and the command is still dispatching.
C16_Witness ==
  /\ response.op = "result"
  /\ response.code = 409
  /\ response.cmd \in CmdIds
  /\ commands[response.cmd].status = "dispatching"
  /\ commands[response.cmd].completed_at = NULL
  /\ results # <<>>
  /\ results[Len(results)].is_final
  /\ results[Len(results)].command_id = response.cmd
  /\ \A i \in 1..Len(events) : events[i].event_type # "command.completed"

-----------------------------------------------------------------------------
\* The audit events of command c that go with a notification (a lease
\* extension has none), and the notifications of c, as event types in order.
NotifiedEvents(c) ==
  LET es == SelectSeq(events, LAMBDA e : /\ e.command_id = c
                                         /\ e.event_type # "command.lease_extended")
  IN [i \in 1..Len(es) |-> es[i].event_type]

Notifications(c) ==
  LET ms == SelectSeq(published, LAMBDA m : m.commandId = c)
  IN [i \in 1..Len(ms) |-> ms[i].eventType]

\* The state change that audit event e tells of is in the store.
Applied(e) ==
  LET row == commands[e.command_id]
  IN /\ e.event_type = "command.created" => row.status = "queued"
     /\ e.event_type = "command.claimed" =>
          (row.status = "dispatching" /\ row.claimed_by_agent_id = e.agent_id)
     /\ e.event_type = "command.released" =>
          (row.status = "queued" /\ row.claimed_by_agent_id = NoAgent)
     /\ e.event_type = "command.progress" => row.status = e.status
     /\ e.event_type = "command.result_chunk" =>
          \E i \in 1..Len(results) :
            /\ results[i].command_id = e.command_id
            /\ results[i].chunk_index = e.chunk_index /\ ~results[i].is_final
     /\ e.event_type = "command.completed" =>
          /\ row.status = "completed"
          /\ \E i \in 1..Len(results) :
               /\ results[i].command_id = e.command_id
               /\ results[i].chunk_index = e.chunk_index /\ results[i].is_final
     /\ e.event_type = "command.failed" => row.status = "failed"
     /\ e.event_type = "command.cancelled" => row.status = "cancelled"

\* C17: every successful mutating operation on a command applies its state
\* change, then writes exactly one audit event for the command, then
\* publishes exactly one notification on the command's topic.  A step that
\* changes the store writes no event and publishes nothing; a step that
\* writes events finds their changes in the store; a step that publishes
\* finds the event written and answers the call; and the notifications of a
\* command follow its audit events one for one, never more than one behind.
C17_ChangeEventPublish ==
  [][/\ (commands' # commands \/ results' # results) =>
          (events' = events /\ published' = published)
     /\ events' # events =>
          /\ commands' = commands /\ results' = results /\ published' = published
          /\ Len(events') > Len(events)
          /\ SubSeq(events', 1, Len(events)) = events
          /\ \A i \in (Len(events) + 1)..Len(events') : Applied(events'[i])
     /\ published' # published =>
          /\ commands' = commands /\ results' = results /\ events' = events
          /\ Len(published') > Len(published)
          /\ SubSeq(published', 1, Len(published)) = published
          /\ response'.code \in {200, 201}
     /\ (\/ events' # events
         \/ published' # published
         \/ (pc' # pc /\ \A p \in Slots : pc'[p] = "idle")) =>
          \A c \in 1..Len(commands') :
            LET evs == NotifiedEvents(c)'
                pub == Notifications(c)'
            IN /\ Len(pub) <= Len(evs)
               /\ Len(evs) <= Len(pub) + 1
               /\ pub = SubSeq(evs, 1, Len(pub))
               /\ (\A p \in Slots : pc'[p] = "idle") => pub = evs]_vars

\* A command was created, claimed, reported executing, given a chunk and
\* failed: five changes, five audit events, five notifications.
C17_Witness ==
  /\ \A p \in Slots : pc[p] = "idle"
  /\ NotifiedEvents(1) =
       <<"command.created", "command.claimed", "command.progress",
         "command.result_chunk", "command.failed">>
  /\ Notifications(1) = NotifiedEvents(1)
  /\ commands[1].status = "failed"

-----------------------------------------------------------------------------
\* C18: release goes through only when the command's agent_id and
\* claimed_by_agent_id are the caller and its status is dispatching or
\* executing; it then sets status to queued, claimed_by_agent_id, claimed_at
\* and lease_expires_at to null and last_claim_error to the reason given
\* (null when none is), and is answered 200; in every other case it is
\* answered 404, 403 or 409 and nothing is changed.
C18_Release ==
  [][/\ Refuses("release") =>
          /\ ~ClaimHeld(response'.cmd, response'.agent)
          /\ response'.code =
               IF response'.cmd \notin CmdIds THEN 404
               ELSE IF commands[response'.cmd].agent_id # response'.agent THEN 403
               ELSE 409
          /\ UNCHANGED storeVars
     /\ \A p \in Slots :
          /\ Admits(p, "release") =>
               (ClaimHeld(req'[p].cmd, req'[p].agent) /\ UNCHANGED storeVars)
          /\ (pc[p] = "release_update" /\ pc'[p] # pc[p]) =>
               /\ commands'[req[p].cmd].status = "queued"
               /\ commands'[req[p].cmd].claimed_by_agent_id = NoAgent
               /\ commands'[req[p].cmd].claimed_at = NULL
               /\ commands'[req[p].cmd].lease_expires_at = NULL
               /\ commands'[req[p].cmd].last_claim_error = req[p].text
               /\ commands'[req[p].cmd].agent_id = commands[req[p].cmd].agent_id
               /\ commands'[req[p].cmd].attempt_count = commands[req[p].cmd].attempt_count
               /\ \A d \in CmdIds \ {req[p].cmd} : commands'[d] = commands[d]
          /\ (pc[p] = "release_publish" /\ pc'[p] # pc[p]) =>
               (response'.code = 200 /\ commands' = commands)]_vars

\* A release with a reason was answered 200 and left the command queued with
\* its claim fields null and the reason in last_claim_error.
C18_Witness ==
  /\ response.op = "release"
  /\ response.code = 200
  /\ commands[response.cmd].status = "queued"
  /\ commands[response.cmd].claimed_by_agent_id = NoAgent
  /\ commands[response.cmd].lease_expires_at = NULL
  /\ commands[response.cmd].last_claim_error = "busy"
  /\ commands[response.cmd].attempt_count = 1

-----------------------------------------------------------------------------
ClaimableOf(a) ==
  {c \in CmdIds :
     /\ commands[c].agent_id = a
     /\ commands[c].status = "queued"
     /\ (commands[c].lease_expires_at = NULL \/ commands[c].lease_expires_at <= now)}

NoOtherClaim(p) == \A q \in Slots \ {p} : pc[q] = "idle"

RanksBefore(c, d) ==
  \/ commands[c].priority > commands[d].priority
  \/ /\ commands[c].priority = commands[d].priority
     /\ commands[c].created_at < commands[d].created_at

\* C19: a claim call of agent A that runs with no other claim call in flight
\* takes exactly min(maxClaims, number of claimable commands of A) commands,
\* all of them claimable commands of A, and no claimable command of A that it
\* leaves ranks before one it takes, in the order priority descending, then
\* creation time ascending; these are the commands the call returns.
C19_ClaimFirstInOrder ==
  [][\A p \in Slots :
       /\ (ClaimSelects(p) /\ NoOtherClaim(p)) =>
            LET taken == Range(req'[p].items)
                pool == ClaimableOf(req'[p].agent)
            IN /\ Len(req'[p].items) = Min(req'[p].maxClaims, Cardinality(pool))
               /\ Cardinality(taken) = Len(req'[p].items)
               /\ taken \subseteq pool
               /\ \A c \in pool \ taken : \A d \in taken : ~RanksBefore(c, d)
       /\ (pc[p] \in {"claim_rpc", "claim_events", "claim_publish"} /\ pc'[p] # "idle") =>
            req'[p].items = req[p].items
       /\ (pc[p] # "idle" /\ pc'[p] = "idle" /\ claimCalls' # claimCalls) =>
            claimCalls'[Len(claimCalls')].items = req[p].items]_vars

\* A call for one command, of an agent with two claimable commands, returned
\* the one created later because its priority is higher, and left the other
\* queued.
C19_Witness ==
  /\ Len(commands) = 2
  /\ commands[1].agent_id = commands[2].agent_id
  /\ commands[1].created_at < commands[2].created_at
  /\ commands[1].priority < commands[2].priority
  /\ commands[1].status = "queued"
  /\ Len(claimCalls) = 1
  /\ claimCalls[1].agent = commands[1].agent_id
  /\ claimCalls[1].maxClaims = 1
  /\ claimCalls[1].items = <<2>>

-----------------------------------------------------------------------------
ClaimUpdates(p) == pc[p] = "claim_rpc" /\ pc'[p] # "claim_rpc"

\* C20: every command a claim call of agent A takes was queued with agent_id
\* A immediately before the call's update, and immediately after it has status
\* dispatching, claimed_by_agent_id A, claimed_at the call's now,
\* lease_expires_at that now plus leaseSeconds, and attempt_count one higher
\* than before; the update leaves every other command as it was, and the rest
\* of the call changes no command.
C20_ClaimUpdate ==
  [][\A p \in Slots :
       /\ ClaimUpdates(p) =>
            /\ \A c \in Range(req[p].items) :
                 /\ commands[c].status = "queued"
                 /\ commands[c].agent_id = req[p].agent
                 /\ commands'[c].agent_id = req[p].agent
                 /\ commands'[c].status = "dispatching"
                 /\ commands'[c].claimed_by_agent_id = req[p].agent
                 /\ commands'[c].claimed_at = req[p].vNow
                 /\ commands'[c].lease_expires_at = req[p].vNow + req[p].leaseSeconds * 1000
                 /\ commands'[c].attempt_count = commands[c].attempt_count + 1
            /\ \A c \in CmdIds \ Range(req[p].items) : commands'[c] = commands[c]
            /\ req[p].vNow <= now
       /\ (pc[p] \in {"claim_events", "claim_publish"} /\ pc'[p] # pc[p]) =>
            commands' = commands
       /\ ClaimSelects(p) => (commands' = commands /\ req'[p].vNow = now)]_vars

\* A call for one command took the second of an agent's two queued commands
\* at time 1000 with a lease of 20 seconds, and left the first as it was.
C20_Witness ==
  /\ Len(commands) = 2
  /\ commands[1] = [NewCommand(commands[2].agent_id, 5) EXCEPT !.created_at = 0]
  /\ commands[2].status = "dispatching"
  /\ commands[2].claimed_by_agent_id = commands[2].agent_id
  /\ commands[2].claimed_at = 1000
  /\ commands[2].lease_expires_at = 21000
  /\ commands[2].attempt_count = 1
  /\ \E p \in Slots : pc[p] = "claim_events" /\ req[p].items = <<2>>

-----------------------------------------------------------------------------
PollWellFormed(c) ==
  /\ Len(c.attempts) >= 1
  /\ c.attempts[1].at = c.start
  /\ c.waitMs = 0 => Len(c.attempts) = 1
  /\ \A i \in 1..(Len(c.attempts) - 1) :
       /\ c.attempts[i].taken = 0
       /\ c.attempts[i].at < c.start + c.waitMs
       /\ i <= Len(c.sleeps)
       /\ c.attempts[i + 1].at >= c.attempts[i].at + c.sleeps[i]
  /\ \A i \in 1..Len(c.sleeps) : c.sleeps[i] > 0 /\ c.sleeps[i] <= 1000
  /\ c.answered =>
       /\ Len(c.sleeps) = Len(c.attempts) - 1
       /\ c.returned = c.attempts[Len(c.attempts)].taken
       /\ c.returned = 0 => c.answerAt >= c.start + c.waitMs

\* C21: the claim long-poll terminates.  A call with waitMs = 0 makes one
\* attempt; a call makes another attempt only after an attempt that claimed
\* nothing and was made before waitMs had elapsed, and only after a sleep of
\* at most 1000 ms; it answers with what its last attempt claimed, and with
\* an empty list only once waitMs has elapsed since it started; and every
\* call is answered in the end.
C21_LongPollTerminates ==
  /\ [](\A k \in 1..Len(claimPolls) : PollWellFormed(claimPolls[k]))
  /\ \A k \in 1..MaxPolls :
       (Len(claimPolls) >= k) ~> (Len(claimPolls) >= k /\ claimPolls[k].answered)

\* One call waited 2500 ms over at least three attempts and answered with an
\* empty list; the next one, with waitMs = 0, returned a command created
\* meanwhile at its only attempt.
C21_Witness ==
  /\ Len(claimPolls) = 2
  /\ claimPolls[1].waitMs = 2500
  /\ claimPolls[1].answered
  /\ claimPolls[1].returned = 0
  /\ Len(claimPolls[1].attempts) >= 3
  /\ claimPolls[2].waitMs = 0
  /\ claimPolls[2].answered
  /\ claimPolls[2].returned = 1

-----------------------------------------------------------------------------
\* C22: no cross-agent claiming.  A claim call selects, updates and returns
\* only commands whose agent_id is the caller, whatever their leases, and it
\* leaves every command of another agent as it was; so in every state a
\* non-null claimed_by_agent_id equals the command's agent_id.
C22_NoCrossAgentClaim ==
  /\ [](\A c \in CmdIds :
          commands[c].claimed_by_agent_id # NoAgent =>
            commands[c].claimed_by_agent_id = commands[c].agent_id)
  /\ [](\A i \in 1..Len(claimCalls) : \A c \in Range(claimCalls[i].items) :
          commands[c].agent_id = claimCalls[i].agent)
  /\ [][\A p \in Slots :
          /\ ClaimSelects(p) =>
               \A c \in Range(req'[p].items) : commands[c].agent_id = req'[p].agent
          /\ (pc[p] # "idle" /\ pc'[p] # pc[p]) =>
               \A c \in CmdIds :
                 commands[c].agent_id # req[p].agent => commands'[c] = commands[c]]_vars

\* Agent A holds a command whose lease has expired; a claim call of agent B
\* made at that time selects nothing.
C22_Witness ==
  /\ Len(commands) >= 1
  /\ commands[1].agent_id = "A"
  /\ commands[1].status = "dispatching"
  /\ commands[1].claimed_by_agent_id = "A"
  /\ \E p \in Slots :
       /\ pc[p] = "claim_rpc"
       /\ req[p].agent = "B"
       /\ req[p].vNow >= commands[1].lease_expires_at
       /\ req[p].items = <<>>

-----------------------------------------------------------------------------
\* The request of slot p ends its audit step with fewer events stored than it
\* had to write.
AuditWriteFailed(p) ==
  /\ pc[p] \in EventSteps
  /\ pc'[p] # pc[p]
  /\ Len(events') < Len(events) + EventsOwed(p)

\* C23: when the audit event write of a mutating request fails, the request
\* ends there with a server error: it is answered 500, never with success,
\* it publishes no notification and it changes nothing more in the store.
C23_EventFailureAborts ==
  [][\A p \in Slots :
       AuditWriteFailed(p) =>
         /\ pc'[p] = "idle"
         /\ response'.code = 500
         /\ response'.op = req[p].op
         /\ published' = published
         /\ clients' = clients
         /\ commands' = commands
         /\ results' = results]_vars

\* A progress report moved the command to executing, its audit write failed,
\* and the request was answered 500: the change is stored with no
\* command.progress event and no notification of it.
C23_Witness ==
  /\ response.code = 500
  /\ response.op = "progress"
  /\ commands[response.cmd].status = "executing"
  /\ \A i \in 1..Len(events) : events[i].event_type # "command.progress"
  /\ \A i \in 1..Len(published) : published[i].status # "executing"

-----------------------------------------------------------------------------
\* The notifications of command c that tell of a status change, in the order
\* the hub delivered them.
StatusNotifications(c) ==
  SelectSeq(published,
            LAMBDA m : m.commandId = c /\ m.eventType # "command.result_chunk")

Quiescent == \A p \in Slots : pc[p] = "idle"

\* C24: the hub delivers the status notifications of a command in the order
\* the status changes were stored, also when the requests run concurrently:
\* once no request is in flight, the last status notification of each command
\* carries its stored status.
C24_OrderedStatusEvents ==
  Quiescent =>
    \A c \in CmdIds :
      StatusNotifications(c) # <<>> =>
        StatusNotifications(c)[Len(StatusNotifications(c))].status = commands[c].status

-----------------------------------------------------------------------------
\* C25: every stream that has subscribed to the hub is unsubscribed when its
\* client connection closes: once the connection is closed the hub holds no
\* subscription for the stream and its response is ended.
C25_StreamUnsubscribedOnClose ==
  \A i \in 1..Len(streams) :
    (streams[i].client # 0 /\ ~streams[i].connected) =>
      (~Registered(streams[i].client) /\ streams[i].ended)

-----------------------------------------------------------------------------
\* The audit events and the notifications a create has written for command c.
CreatedEvents(c) ==
  SelectSeq(events, LAMBDA e : e.command_id = c /\ e.event_type = "command.created")

CreatedNotifications(c) ==
  SelectSeq(published, LAMBDA m : m.commandId = c /\ m.eventType = "command.created")

CreateAnswered ==
  /\ response.op = "create"
  /\ response.code = 201
  /\ response.cmd \in CmdIds

CreateRecordedOnce ==
  /\ Len(CreatedEvents(response.cmd)) = 1
  /\ Len(CreatedNotifications(response.cmd)) = 1
  /\ CreatedNotifications(response.cmd)[1].status = "queued"

\* C27: a created command is stored with status queued (never draft), with
\* null claim fields and attempt_count 0, and once the create is answered
\* its creation has written one command.created audit event and published one
\* notification, with status queued.
C27_CreateStoresQueued ==
  [][/\ Len(commands') # Len(commands) =>
          /\ Len(commands') = Len(commands) + 1
          /\ commands'[Len(commands')].status = "queued"
          /\ commands'[Len(commands')].claimed_by_agent_id = NoAgent
          /\ commands'[Len(commands')].claimed_at = NULL
          /\ commands'[Len(commands')].lease_expires_at = NULL
          /\ commands'[Len(commands')].attempt_count = 0
     /\ \A c \in 1..Len(commands') : commands'[c].status # "draft"
     /\ CreateAnswered' => CreateRecordedOnce']_vars

C27_Witness ==
  /\ CreateAnswered
  /\ commands[response.cmd].status = "queued"
  /\ commands[response.cmd].attempt_count = 0
  /\ Len(CreatedEvents(response.cmd)) = 1

-----------------------------------------------------------------------------
\* The order of the roles, lowest first.
RoleOrder == <<"viewer", "operator", "admin">>

RoleRank(role) == CHOOSE i \in 1..Len(RoleOrder) : RoleOrder[i] = role

\* The middleware answers the arrived request, or its handler starts.
Taken == wire # NoWire /\ wire' = NoWire

RejectedWith(code, error) ==
  /\ response'.code = code
  /\ response'.error = error
  /\ \A p \in Slots : pc'[p] = "idle"
  /\ UNCHANGED storeVars

\* C26: requireRole(minimum) lets a request through exactly when the caller's
\* role ranks at least the minimum in the order viewer < operator < admin, a
\* user without a profile row counting as viewer; create-command and cancel
\* called by a user below operator are answered 403 'Insufficient role' by a
\* step that changes no command, result, event or notification, and called by
\* an operator or an admin they reach their handler.
C26_RoleGating ==
  [][/\ \A m \in Roles, r \in Roles :
          requireRole(m, r) <=> RoleRank(r) >= RoleRank(m)
     /\ (Taken /\ wire.kind = "user" /\ wire.token \in UserTokens) =>
          LET role == IF wire.role = NoRole THEN "viewer" ELSE wire.role
          IN IF RoleRank(role) >= RoleRank("operator")
               THEN /\ response'.error = NullText
                    /\ \/ \E p \in Slots : req'[p].op = wire.op
                       \/ response'.op = wire.op
               ELSE RejectedWith(403, "Insufficient role")]_vars

C26_Witness ==
  /\ response.code = 403
  /\ response.error = "Insufficient role"
  /\ response.op = "cancel"
  /\ \E c \in CmdIds : commands[c].status = "dispatching"

-----------------------------------------------------------------------------
\* C30: an agent-facing operation runs only when the request carries a bearer
\* token whose hash is the token_hash of an agent with token_active = true:
\* without a token the request is answered 401 'Missing agent token', with an
\* unmatched or inactive token 401 'Invalid agent token', in both cases by a
\* step that changes nothing stored and starts no handler; otherwise the
\* handler runs with that agent's id as the caller.
C30_AgentTokenGate ==
  [][(Taken /\ wire.kind = "agent") =>
       LET matching == {a \in DOMAIN agents :
                          /\ agents[a].token_active
                          /\ agents[a].token_hash = sha256(wire.token)}
       IN IF wire.token = NoToken THEN RejectedWith(401, "Missing agent token")
          ELSE IF matching = {} THEN RejectedWith(401, "Invalid agent token")
          ELSE /\ response'.error = NullText
               /\ \E a \in matching :
                    \/ \E p \in Slots : req'[p].op = wire.op /\ req'[p].agent = a
                    \/ response'.op = wire.op /\ response'.agent = a]_vars

C30_Witness ==
  /\ response.code = 401
  /\ response.error = "Invalid agent token"
  /\ response.op = "progress"
  /\ ~agents["B"].token_active
  /\ \E c \in CmdIds : commands[c].claimed_by_agent_id = "A"

-----------------------------------------------------------------------------
\* The exchanges of setup code c that were answered 200.
Exchanged(c) ==
  {k \in 1..Len(exchangeCalls) :
     exchangeCalls[k].setupCode = c /\ exchangeCalls[k].answer = 200}

\* C28: a setup code is exchanged for a token at most once, concurrent
\* exchanges included; an exchange that starts after one of the same code has
\* succeeded is answered 404; an exchange that starts on an unconsumed code at
\* or after its expiry time is answered 410 and writes no token to the agent.
C28_SetupCodeOneTime ==
  /\ \A c \in SetupCodes : Cardinality(Exchanged(c)) <= 1
  /\ \A k \in 1..Len(exchangeCalls) :
       /\ exchangeCalls[k].afterSuccess => exchangeCalls[k].answer \in {0, 404}
       /\ exchangeCalls[k].expired =>
            /\ exchangeCalls[k].answer \in {0, 410}
            /\ ~exchangeCalls[k].wroteToken

-----------------------------------------------------------------------------
-----------------------------------------------------------------------------
\* The progress call of slot p stores its update at this step.
ProgressStores(p) == pc[p] = "progress_update" /\ pc'[p] = "progress_event"

\* The progress events written for command c with the given status.
ProgressEvents(c, status) ==
  SelectSeq(events, LAMBDA e : /\ e.command_id = c
                               /\ e.event_type = "command.progress"
                               /\ e.status = status)

\* C31: progress stamps started_at exactly when it moves a command into
\* executing from a status other than executing: that update sets started_at
\* to the time of the call; the update of a progress(executing) on an
\* executing command and that of a progress(dispatching) leave started_at as
\* it was, and no other step of a progress call changes it.
C31_ProgressStampsStartedAt ==
  [][\A p \in Slots :
       (req[p].op = "progress" /\ req[p].cmd \in CmdIds) =>
         LET c == req[p].cmd
         IN IF /\ ProgressStores(p)
               /\ req[p].newStatus = "executing"
               /\ commands[c].status # "executing"
              THEN /\ commands'[c].started_at # NULL
                   /\ commands'[c].started_at = req[p].vNow
              ELSE commands'[c].started_at = commands[c].started_at]_vars

C31_Witness ==
  /\ response.op = "progress"
  /\ response.code = 200
  /\ response.cmd \in CmdIds
  /\ commands[response.cmd].status = "executing"
  /\ commands[response.cmd].started_at # NULL
  /\ commands[response.cmd].started_at < now
  /\ Len(ProgressEvents(response.cmd, "executing")) = 2

-----------------------------------------------------------------------------
Active == {"queued", "dispatching", "executing"}

\* An idle slot p takes a call of the given operation on a command of the
\* caller, and answers it at once or goes on to its update.
OwnerCallAnswered(p, op) ==
  /\ pc[p] = "idle"
  /\ response'.op = op
  /\ response'.cmd \in CmdIds
  /\ commands[response'.cmd].agent_id = response'.agent

OwnerCallAdmitted(p, op) ==
  /\ pc[p] = "idle"
  /\ req'[p].op = op

\* C32: fail by the owning agent succeeds exactly when the stored status is
\* queued, dispatching or executing: from completed, failed or cancelled it
\* is answered 409 by a step that changes nothing stored; otherwise its
\* update sets status failed, error_message to the message of the call and
\* completed_at to the time of the call, and leaves the other columns and
\* the other commands alone, and the call is answered 200.
C32_Fail ==
  [][\A p \in Slots :
       /\ OwnerCallAnswered(p, "fail") =>
            /\ commands[response'.cmd].status \in Terminal
            /\ response'.code = 409
            /\ UNCHANGED storeVars
       /\ OwnerCallAdmitted(p, "fail") =>
            /\ commands[req'[p].cmd].agent_id = req'[p].agent
            /\ commands[req'[p].cmd].status \in Active
            /\ req'[p].text \in ErrorMessages
       /\ (pc[p] = "fail_update" /\ pc'[p] # "fail_update") =>
            /\ commands' = [commands EXCEPT
                              ![req[p].cmd] = [@ EXCEPT !.status = "failed",
                                                        !.error_message = req[p].text,
                                                        !.completed_at = req[p].vNow]]
            /\ req[p].vNow # NULL
       /\ (pc[p] = "fail_publish" /\ pc'[p] = "idle") =>
            /\ response'.code = 200
            /\ commands'[response'.cmd].status = "failed"]_vars

C32_Witness ==
  /\ response.op = "fail"
  /\ response.code = 200
  /\ response.cmd \in CmdIds
  /\ commands[response.cmd].status = "failed"
  /\ commands[response.cmd].error_message \in ErrorMessages
  /\ commands[response.cmd].completed_at = now
  /\ now > 0

-----------------------------------------------------------------------------
\* The middleware takes a cancel request of a user whose role is operator or
\* admin.
OperatorCancels ==
  /\ Taken
  /\ wire.kind = "user"
  /\ wire.op = "cancel"
  /\ wire.token \in UserTokens
  /\ wire.role \in {"operator", "admin"}

\* C33: cancel by an operator or an admin is answered 404 on a missing
\* command and 409 on a completed, failed or cancelled one, and goes on for
\* every existing command that is queued, dispatching or executing, whichever
\* agent it is for and whether or not an agent holds it; its update sets
\* status cancelled and completed_at to the time of the call and nothing
\* else, and the call is answered 200.
C33_Cancel ==
  [][\A p \in Slots :
       /\ OperatorCancels =>
            IF response'.op = "cancel"
              THEN /\ UNCHANGED storeVars
                   /\ IF response'.cmd \in CmdIds
                        THEN /\ response'.code = 409
                             /\ commands[response'.cmd].status \in Terminal
                        ELSE response'.code = 404
              ELSE /\ \E q \in Slots : /\ pc'[q] = "cancel_update"
                                       /\ req'[q].cmd \in CmdIds
                                       /\ commands[req'[q].cmd].status \in Active
       /\ (pc[p] = "cancel_update" /\ pc'[p] # "cancel_update") =>
            /\ commands' = [commands EXCEPT
                              ![req[p].cmd] = [@ EXCEPT !.status = "cancelled",
                                                        !.completed_at = req[p].vNow]]
            /\ req[p].vNow # NULL
       /\ (pc[p] = "cancel_publish" /\ pc'[p] = "idle") =>
            /\ response'.code = 200
            /\ commands'[response'.cmd].status = "cancelled"]_vars

C33_Witness ==
  /\ response.op = "cancel"
  /\ response.code = 200
  /\ response.cmd \in CmdIds
  /\ commands[response.cmd].status = "cancelled"
  /\ commands[response.cmd].completed_at # NULL
  /\ commands[response.cmd].agent_id = "B"
  /\ commands[response.cmd].claimed_by_agent_id = "B"

-----------------------------------------------------------------------------
-----------------------------------------------------------------------------
(* routes/mcp.ts: POST /agents/tasks/:taskId/logs.  The handler reads the   *)
(* task, reads the highest seq stored for it, numbers the lines after it    *)
(* and inserts them in one statement; agent_task_logs has a unique          *)
(* constraint on (task_id, seq).  The handler does not write agent_tasks:   *)
(* the table is a fixed one here.                                           *)

Tasks == [t \in {1} |-> [agent_id |-> "A"]]
TaskChoices == {1, 2}
LineCounts == {1, 2}

NoLogCall == [task |-> 0, startSeq |-> 0, lines |-> 0, code |-> 0, nextSeq |-> 0,
              stored |-> {}]

LogStep(p, label, r, resp) ==
  /\ wire' = NoWire
  /\ pc' = [pc EXCEPT ![p] = label]
  /\ req' = [req EXCEPT ![p] = r]
  /\ response' = resp
  /\ UNCHANGED clientsByCommand
  /\ UNCHANGED registryVars
  /\ UNCHANGED histVars

LogAnswered(p, code, nextSeq) ==
  logCalls' = [logCalls EXCEPT ![req[p].call] = [@ EXCEPT !.code = code,
                                                         !.nextSeq = nextSeq]]

\* select id, agent_id from agent_tasks where id = taskId
LogTask(p, agentId, taskId, n) ==
  /\ pc[p] = "idle"
  /\ Len(logCalls) < MaxLogCalls
  /\ UNCHANGED <<now, commands, results, events, published, clients, taskLogs>>
  /\ IF taskId \notin DOMAIN Tasks
       THEN /\ LogStep(p, "idle", NoReq, Response(404, "task_logs", agentId, taskId))
            /\ UNCHANGED logCalls
     ELSE IF Tasks[taskId].agent_id # agentId
       THEN /\ LogStep(p, "idle", NoReq, Response(403, "task_logs", agentId, taskId))
            /\ UNCHANGED logCalls
     ELSE /\ LogStep(p, "log_latest",
                     [NoReq EXCEPT !.op = "task_logs", !.agent = agentId, !.cmd = taskId,
                                   !.lines = n, !.call = Len(logCalls) + 1],
                     NoResponse)
          /\ logCalls' = Append(logCalls, [NoLogCall EXCEPT !.task = taskId, !.lines = n])

\* select seq from agent_task_logs where task_id = taskId order by seq desc limit 1
latestSeq(taskId) ==
  LET seqs == {taskLogs[i].seq : i \in {j \in DOMAIN taskLogs : taskLogs[j].task_id = taskId}}
  IN IF seqs = {} THEN 0 ELSE CHOOSE m \in seqs : \A x \in seqs : x <= m

LogLatest(p) ==
  /\ pc[p] = "log_latest"
  /\ LogStep(p, "log_insert", [req[p] EXCEPT !.startSeq = latestSeq(req[p].cmd)], NoResponse)
  /\ logCalls' = [logCalls EXCEPT ![req[p].call] =
                    [@ EXCEPT !.startSeq = latestSeq(req[p].cmd)]]
  /\ UNCHANGED <<now, commands, results, events, published, clients, taskLogs>>

\* rows = lines.map((line, idx) => ({task_id, seq: startSeq + idx + 1, ...}))
LogRows(p) ==
  [idx \in 1..req[p].lines |-> [task_id |-> req[p].cmd, seq |-> req[p].startSeq + idx]]

\* unique (task_id, seq)
UniqueTaskSeq_Unconstrained(rows) == TRUE

UniqueTaskSeq(rows) ==
  \A i \in DOMAIN rows, j \in DOMAIN taskLogs :
    ~(rows[i].task_id = taskLogs[j].task_id /\ rows[i].seq = taskLogs[j].seq)

\* One insert statement: all the rows are stored or none is.
LogInsert(p) ==
  /\ pc[p] = "log_insert"
  /\ UNCHANGED <<now, commands, results, events, published, clients>>
  /\ IF UniqueTaskSeq(LogRows(p))
       THEN /\ taskLogs' = taskLogs \o LogRows(p)
            /\ logCalls' = [logCalls EXCEPT ![req[p].call] =
                              [@ EXCEPT !.stored = {LogRows(p)[i].seq : i \in DOMAIN LogRows(p)}]]
            /\ LogStep(p, "log_event", req[p], NoResponse)
       ELSE /\ UNCHANGED taskLogs
            /\ LogAnswered(p, 500, 0)
            /\ LogStep(p, "idle", NoReq, Answer(p, 500))

LogEvent(p) ==
  /\ pc[p] = "log_event"
  /\ createEvent("agent.task.log_appended", "info", req[p].agent, 0, NullText, NULL)
  /\ LogStep(p, "log_publish", req[p], NoResponse)
  /\ UNCHANGED <<now, commands, results, published, clients>>
  /\ UNCHANGED taskVars

\* The notification goes to the topic of the agent; the answer carries
\* nextSeq = startSeq + rows.length.
LogPublish(p) ==
  /\ pc[p] = "log_publish"
  /\ published' = Append(published, Payload(req[p].cmd, NullText, "agent.task.log_appended"))
  /\ LogAnswered(p, 200, req[p].startSeq + req[p].lines)
  /\ LogStep(p, "idle", NoReq, Answer(p, 200))
  /\ UNCHANGED <<now, commands, results, events, clients, taskLogs>>

NextLogs ==
  \/ \E p \in Procs, a \in Agents, t \in TaskChoices, n \in LineCounts : LogTask(p, a, t, n)
  \/ \E p \in Procs : LogLatest(p)
  \/ \E p \in Procs : LogInsert(p)
  \/ \E p \in Procs : LogEvent(p)
  \/ \E p \in Procs : LogPublish(p)

SpecLogs == InitConnect /\ [][NextLogs]_vars

\* C35: the log rows of a task carry the seq values 1..n, each once and in
\* the order the rows were stored, whatever appends overlapped; the nextSeq
\* of every answered append is the highest seq that append stored.
C35_TaskLogSeqOrdering ==
  /\ \A t \in DOMAIN Tasks :
       LET rows == SelectSeq(taskLogs, LAMBDA r : r.task_id = t)
       IN \A i \in DOMAIN rows : rows[i].seq = i
  /\ \A k \in DOMAIN logCalls :
       logCalls[k].code = 200 =>
         /\ logCalls[k].nextSeq \in logCalls[k].stored
         /\ \A x \in logCalls[k].stored : x <= logCalls[k].nextSeq

\* Two appends overlapped and the store refused one; a later append went in
\* behind the rows of the other.
C35_Witness ==
  /\ \E k \in DOMAIN logCalls : logCalls[k].code = 500
  /\ \E k \in DOMAIN logCalls :
       /\ logCalls[k].code = 200
       /\ logCalls[k].startSeq > 0
       /\ logCalls[k].lines = 2
  /\ Len(taskLogs) >= 3

-----------------------------------------------------------------------------
\* C36: when the audit write of a mutating request fails, what the request
\* has stored stays stored: after the failing step the command still carries
\* the status (and the claim or completion fields) the request wrote, though
\* no audit event tells of it.
C36_FailedAuditKeepsChange ==
  [][\A p \in Slots :
       AuditWriteFailed(p) =>
         /\ events' = events \/ req[p].op = "claim"
         /\ req[p].op = "progress" =>
              commands'[req[p].cmd].status = req[p].newStatus
         /\ req[p].op = "fail" =>
              /\ commands'[req[p].cmd].status = "failed"
              /\ commands'[req[p].cmd].completed_at # NULL
         /\ req[p].op = "cancel" =>
              /\ commands'[req[p].cmd].status = "cancelled"
              /\ commands'[req[p].cmd].completed_at # NULL
         /\ req[p].op = "release" =>
              /\ commands'[req[p].cmd].status = "queued"
              /\ commands'[req[p].cmd].claimed_by_agent_id = NoAgent
         /\ (req[p].op = "result" /\ req[p].isFinal) =>
              /\ commands'[req[p].cmd].status = "completed"
              /\ commands'[req[p].cmd].completed_at # NULL
         /\ req[p].op = "claim" =>
              \A c \in Range(req[p].items) :
                /\ commands'[c].status = "dispatching"
                /\ commands'[c].claimed_by_agent_id = req[p].agent]_vars

\* A fail call was answered 500 because its audit write failed: the command
\* is failed and no command.failed event exists.
C36_Witness ==
  /\ response.code = 500
  /\ response.op = "fail"
  /\ commands[response.cmd].status = "failed"
  /\ commands[response.cmd].completed_at # NULL
  /\ \A i \in 1..Len(events) : events[i].event_type # "command.failed"

-----------------------------------------------------------------------------
\* C37: a queued command is unclaimed in every reachable state, also when
\* extendLease and release calls on it interleave: its claimed_by_agent_id,
\* claimed_at and lease_expires_at are all null.
C37_QueuedUnclaimed ==
  \A c \in CmdIds :
    commands[c].status = "queued" =>
      /\ commands[c].claimed_by_agent_id = NoAgent
      /\ commands[c].claimed_at = NULL
      /\ commands[c].lease_expires_at = NULL

-----------------------------------------------------------------------------
-----------------------------------------------------------------------------
\* The claim calls answered so far that returned command c: each of them
\* published one command.claimed notification for it with its answer.
ClaimsReturned(c) ==
  Len(SelectSeq(published,
                LAMBDA m : m.commandId = c /\ m.eventType = "command.claimed"))

\* The claim calls that have taken command c and are yet to answer.
ClaimsUnanswered(c) ==
  Cardinality({p \in Slots : /\ pc[p] \in {"claim_events", "claim_publish"}
                             /\ c \in Range(req[p].items)})

\* C39: attempt_count counts the claims of a command: it equals the number
\* of claim calls that have taken the command, it never decreases, the
\* update of a claim raises it by one for each command it takes, and no step
\* of release, extendLease, progress, appendResult, fail or cancel changes it.
C39_AttemptCountCountsClaims ==
  /\ [](\A c \in CmdIds :
          commands[c].attempt_count = ClaimsReturned(c) + ClaimsUnanswered(c))
  /\ [][\A c \in CmdIds :
          /\ commands'[c].attempt_count >= commands[c].attempt_count
          /\ \A p \in Slots :
               (pc[p] \notin {"idle", "claim_rpc", "claim_sleep"} /\ pc'[p] # pc[p]) =>
                 commands'[c].attempt_count = commands[c].attempt_count
          /\ commands'[c].attempt_count # commands[c].attempt_count =>
               \E p \in Slots :
                 /\ pc[p] = "claim_rpc"
                 /\ c \in Range(req[p].items)
                 /\ commands'[c].attempt_count = commands[c].attempt_count + 1]_vars

\* A command was claimed, released and claimed again, and then failed: its
\* attempt_count is 2 and two claim calls returned it.
C39_Witness ==
  \E c \in CmdIds :
    /\ commands[c].attempt_count = 2
    /\ ClaimsReturned(c) = 2
    /\ commands[c].status = "failed"

-----------------------------------------------------------------------------
\* C40: in every reachable state, also when calls on one command interleave,
\* completed_at is non-null exactly when the status is completed, failed or
\* cancelled, and an executing command has a non-null started_at.
C40_TimestampsMatchStatus ==
  \A c \in CmdIds :
    /\ commands[c].completed_at # NULL <=> commands[c].status \in Terminal
    /\ commands[c].status = "executing" => commands[c].started_at # NULL

====
